---- MODULE Spec2Model ----
(***************************************************************************)
(* Model of src/file_extractor.py: the extension dispatcher                *)
(* (extract_text_from_bytes), the archive resolver (extract_from_zip and   *)
(* select_best_file_from_zip) and the per-format extractors.               *)
(*                                                                         *)
(* File names are sequences of characters (one-character strings), so that *)
(* startswith, endswith, basename, lower and pathlib's suffix are computed *)
(* as Python computes them.  The module is ASCII, so every Hangul syllable *)
(* of the two priority literals is written as one character token:         *)
(*   {je}{an}{yo}{cheong}{seo}  and  {gwa}{eop}{ji}{si}{seo}.              *)
(* A byte buffer is a record that says what each backend finds in it.      *)
(***************************************************************************)
EXTENDS Integers, Sequences, FiniteSets, TLC

VARIABLES
    HAS_OLEFILE, HAS_HWPLOADER, HAS_PYPDF, HAS_DOCX, HAS_OPENPYXL,
    entry, filename, url, file_bytes,
    stack, pc, calls, result,
    file_list, valid_files, best_file, tiers,
    inner_bytes,
    temp_file_path, fs, documents,
    ole, streams_read, text_parts, section_i,
    sites, disk

capVars == <<HAS_OLEFILE, HAS_HWPLOADER, HAS_PYPDF, HAS_DOCX, HAS_OPENPYXL>>
argVars == <<entry, filename, url, file_bytes>>
selVars == <<file_list, valid_files, best_file, tiers>>
hwpVars == <<temp_file_path, fs, documents>>
oleVars == <<ole, streams_read, text_parts, section_i>>
\* the calls that run at the same time, and the content of the temporary files
concVars == <<sites, disk>>
vars == <<capVars, argVars, stack, pc, calls, result, selVars, inner_bytes,
          hwpVars, oleVars, concVars>>

(***************************************************************************)
(* Bounds of the model.                                                    *)
(***************************************************************************)
\* longest archive listing handed to select_best_file_from_zip directly
MaxEntries == 3

(***************************************************************************)
(* Python str operations on character sequences.                           *)
(***************************************************************************)
UpperChars == <<"A", "B", "C", "D", "E", "F", "G", "H", "I", "J", "K", "L", "M",
                "N", "O", "P", "Q", "R", "S", "T", "U", "V", "W", "X", "Y", "Z">>
LowerChars == <<"a", "b", "c", "d", "e", "f", "g", "h", "i", "j", "k", "l", "m",
                "n", "o", "p", "q", "r", "s", "t", "u", "v", "w", "x", "y", "z">>

\* str.lower() on one character
LowerChar(c) ==
    IF \E i \in 1..Len(UpperChars) : UpperChars[i] = c
    THEN LowerChars[CHOOSE i \in 1..Len(UpperChars) : UpperChars[i] = c]
    ELSE c

\* str.lower()
Lower(s) == [i \in 1..Len(s) |-> LowerChar(s[i])]

\* str.startswith(p)
StartsWith(s, p) == Len(p) <= Len(s) /\ SubSeq(s, 1, Len(p)) = p

\* str.endswith(p)
EndsWith(s, p) == Len(p) <= Len(s) /\ SubSeq(s, Len(s) - Len(p) + 1, Len(s)) = p

\* p in s
Contains(s, p) == \E i \in 1..(Len(s) - Len(p) + 1) : SubSeq(s, i, i + Len(p) - 1) = p

\* positions of c in s
Positions(s, c) == {i \in 1..Len(s) : s[i] = c}

\* the largest element of a non-empty set of integers
MaxOf(S) == CHOOSE m \in S : \A x \in S : x <= m

\* os.path.basename (posixpath): what follows the last "/"
Basename(s) ==
    IF Positions(s, "/") = {} THEN s
    ELSE SubSeq(s, MaxOf(Positions(s, "/")) + 1, Len(s))

\* the path components pathlib keeps: split on "/", drop "" and "."
RECURSIVE PathParts(_)
PathParts(s) ==
    IF s = <<>> THEN <<>>
    ELSE LET cut == IF Positions(s, "/") = {} THEN Len(s) + 1
                    ELSE CHOOSE i \in Positions(s, "/") : \A j \in Positions(s, "/") : i <= j
             head == SubSeq(s, 1, cut - 1)
             rest == IF cut > Len(s) THEN <<>> ELSE SubSeq(s, cut + 1, Len(s))
         IN  IF head = <<>> \/ head = <<".">> THEN PathParts(rest)
             ELSE <<head>> \o PathParts(rest)

\* pathlib.PurePath.name
PathName(s) == LET p == PathParts(s) IN IF p = <<>> THEN <<>> ELSE p[Len(p)]

\* pathlib.PurePath.suffix: name[i:] for the last "." at 0 < i < len(name) - 1
PathSuffix(s) ==
    LET name == PathName(s)
        dots == Positions(name, ".")
    IN  IF dots = {} THEN <<>>
        ELSE LET i == MaxOf(dots)
             IN  IF 1 < i /\ i < Len(name) THEN SubSeq(name, i, Len(name)) ELSE <<>>

\* the characters of s as one string
RECURSIVE Str(_)
Str(s) == IF s = <<>> THEN "" ELSE Head(s) \o Str(Tail(s))

\* sep.join(parts) on strings (the list is halved, so that long lists nest little)
RECURSIVE Join(_, _)
Join(sep, parts) ==
    IF parts = <<>> THEN ""
    ELSE IF Len(parts) = 1 THEN parts[1]
    ELSE LET half == Len(parts) \div 2
         IN  Join(sep, SubSeq(parts, 1, half)) \o sep
             \o Join(sep, SubSeq(parts, half + 1, Len(parts)))

(***************************************************************************)
(* Literals of the source.                                                 *)
(***************************************************************************)
LIT_PROPOSAL == <<"{je}", "{an}", "{yo}", "{cheong}", "{seo}">>
LIT_TASK == <<"{gwa}", "{eop}", "{ji}", "{si}", "{seo}">>
MACOSX == <<"_", "_", "M", "A", "C", "O", "S", "X">>
EXT_ZIP == <<".", "z", "i", "p">>
EXT_HWP == <<".", "h", "w", "p">>
EXT_HWPX == <<".", "h", "w", "p", "x">>
EXT_PDF == <<".", "p", "d", "f">>
EXT_DOCX == <<".", "d", "o", "c", "x">>
EXT_XLSX == <<".", "x", "l", "s", "x">>
EXT_XLS == <<".", "x", "l", "s">>

\* Python's None where a file name is expected (no character sequence equals it)
NoFile == <<"{None}">>

(***************************************************************************)
(* Archive entry names the listings are drawn from.                        *)
(***************************************************************************)
ENTRY ==
    [ hwp |-> <<"a", ".", "h", "w", "p">>,
      HWPX |-> <<"B", ".", "H", "W", "P", "X">>,
      pdf |-> <<"c", ".", "p", "d", "f">>,
      docx |-> <<"d", ".", "d", "o", "c", "x">>,
      txt |-> <<"e", ".", "t", "x", "t">>,
      prop_xls |-> <<"{je}", "{an}", "{yo}", "{cheong}", "{seo}", ".", "x", "l", "s">>,
      task_zip |-> <<"r", "/", "{gwa}", "{eop}", "{ji}", "{si}", "{seo}", ".", "z", "i", "p">>,
      mac_prop |-> <<"_", "_", "M", "A", "C", "O", "S", "X", "/", "{je}", "{an}", "{yo}", "{cheong}", "{seo}", ".", "h", "w", "p">>,
      hid_task |-> <<".", "{gwa}", "{eop}", "{ji}", "{si}", "{seo}", ".", "p", "d", "f">>,
      dir_prop |-> <<"{je}", "{an}", "{yo}", "{cheong}", "{seo}", "/">>,
      propdir_pdf |-> <<"{je}", "{an}", "{yo}", "{cheong}", "{seo}", "/", "f", ".", "p", "d", "f">>,
      submac_hwp |-> <<"s", "/", "_", "_", "M", "A", "C", "O", "S", "X", "/", "g", ".", "h", "w", "p">>,
      hiddir_docx |-> <<".", "h", "/", "i", ".", "d", "o", "c", "x">>,
      task_xlsx |-> <<"{gwa}", "{eop}", "{ji}", "{si}", "{seo}", ".", "x", "l", "s", "x">>,
      prop_hwp |-> <<"{je}", "{an}", "{yo}", "{cheong}", "{seo}", ".", "h", "w", "p">> ]

EntryNames ==
    {ENTRY.hwp, ENTRY.HWPX, ENTRY.pdf, ENTRY.docx, ENTRY.txt, ENTRY.prop_xls, ENTRY.task_zip, ENTRY.mac_prop,
     ENTRY.hid_task, ENTRY.dir_prop, ENTRY.propdir_pdf, ENTRY.submac_hwp, ENTRY.hiddir_docx, ENTRY.task_xlsx,
     ENTRY.prop_hwp}

\* every listing of at most n entries
ListingsUpTo(n) == UNION {[1..k -> EntryNames] : k \in 0..n}

(***************************************************************************)
(* select_best_file_from_zip                                               *)
(***************************************************************************)
\* IsValidFile without the test of the base name
IsValidFile_NoHidden(f) == ~StartsWith(f, MACOSX) /\ ~EndsWith(f, <<"/">>)

\* IsValidFile when the two name tests look at every component of the path
IsValidFile_AnyComponent(f) ==
    /\ ~Contains(f, MACOSX)
    /\ \A k \in 1..Len(f) : f[k] = "." => ~(k = 1 \/ f[k - 1] = "/")
    /\ ~EndsWith(f, <<"/">>)

\* the filter of the list comprehension
IsValidFile(f) ==
    /\ ~StartsWith(f, MACOSX)
    /\ ~StartsWith(Basename(f), <<".">>)
    /\ ~EndsWith(f, <<"/">>)

\* IsPriority1 on the whole path instead of the base name
IsPriority1_FullPath(f) == Contains(f, LIT_PROPOSAL) \/ Contains(f, LIT_TASK)

\* Priority 1 test
IsPriority1(f) ==
    Contains(Basename(f), LIT_PROPOSAL) \/ Contains(Basename(f), LIT_TASK)

\* IsPriority2 without .lower()
IsPriority2_CaseSensitive(f) == EndsWith(f, EXT_HWP) \/ EndsWith(f, EXT_HWPX)

\* Priority 2 test
IsPriority2(f) == EndsWith(Lower(f), EXT_HWP) \/ EndsWith(Lower(f), EXT_HWPX)

\* Priority 3 test
IsPriority3(f) == EndsWith(Lower(f), EXT_DOCX) \/ EndsWith(Lower(f), EXT_PDF)

\* "for f in valid_files: if test(f): return f": the matches of each loop, in
\* the order of valid_files; the loop returns the first of them, if any
Priority1Matches == SelectSeq(valid_files, IsPriority1)

\* Priority2Matches when the second loop has no return
Priority2Matches_None == <<>>

Priority2Matches == SelectSeq(valid_files, IsPriority2)
Priority3Matches == SelectSeq(valid_files, IsPriority3)

\* return from select_best_file_from_zip to its caller
SelectReturn(f) ==
    /\ best_file' = f
    /\ stack' = SubSeq(stack, 1, Len(stack) - 1)
    /\ pc' = IF Len(stack) = 1 THEN "done" ELSE "zip_selected"

\* valid_files = [f for f in file_list if ...]
select_filter ==
    /\ pc = "sel_filter"
    /\ valid_files' = SelectSeq(file_list, IsValidFile)
    /\ pc' = "sel_p1"
    /\ UNCHANGED <<concVars, capVars, argVars, stack, calls, result, file_list, best_file, tiers,
                   inner_bytes, hwpVars, oleVars>>

\* Priority 1 loop
select_priority1 ==
    /\ pc = "sel_p1"
    /\ tiers' = Append(tiers, 1)
    /\ IF Priority1Matches # <<>>
       THEN SelectReturn(Head(Priority1Matches))
       ELSE pc' = "sel_p2" /\ UNCHANGED <<best_file, stack>>
    /\ UNCHANGED <<concVars, capVars, argVars, calls, result, file_list, valid_files,
                   inner_bytes, hwpVars, oleVars>>

\* Priority 2 loop
select_priority2 ==
    /\ pc = "sel_p2"
    /\ tiers' = Append(tiers, 2)
    /\ IF Priority2Matches # <<>>
       THEN SelectReturn(Head(Priority2Matches))
       ELSE pc' = "sel_p3" /\ UNCHANGED <<best_file, stack>>
    /\ UNCHANGED <<concVars, capVars, argVars, calls, result, file_list, valid_files,
                   inner_bytes, hwpVars, oleVars>>

\* Priority 3 loop, and the final "return None"
select_priority3 ==
    /\ pc = "sel_p3"
    /\ tiers' = Append(tiers, 3)
    /\ IF Priority3Matches # <<>>
       THEN SelectReturn(Head(Priority3Matches))
       ELSE SelectReturn(NoFile)
    /\ UNCHANGED <<concVars, capVars, argVars, calls, result, file_list, valid_files,
                   inner_bytes, hwpVars, oleVars>>

(***************************************************************************)
(* Text values.  A text is a string; "" stands for None or the empty       *)
(* string, " " for a string of white space only, " x " for a text with     *)
(* white space around it.                                                   *)
(***************************************************************************)
\* str.strip()
Strip(t) == IF t \in {"", " "} THEN "" ELSE IF t = " x " THEN "x" ELSE t

\* "t and t.strip()" as a condition
NonBlank(t) == Strip(t) # ""

\* str(e) of the exception a backend raises
ErrMsg == "backend fault"

(***************************************************************************)
(* Byte buffers.  A buffer is described by what the backends find in it:   *)
(*   empty, garbage : no container at all (zipfile raises BadZipFile, the  *)
(*                    other backends raise)                                *)
(*   zipfault : a ZIP on which zipfile.ZipFile raises another exception    *)
(*   zip  : namelist, the outcome of zf.read and the bytes read            *)
(*   hwp  : an OLE container: what HWPLoader yields, and its streams       *)
(*   hwpx : a ZIP of XML parts;  pdf : pages;  docx : paragraphs, tables;  *)
(*   xlsx : sheets of rows of cells                                        *)
(***************************************************************************)
MEMBER ==
    [ section0 |-> <<"C", "o", "n", "t", "e", "n", "t", "s", "/", "s", "e", "c", "t", "i", "o", "n", "0", ".", "x", "m", "l">>,
      section1 |-> <<"C", "o", "n", "t", "e", "n", "t", "s", "/", "s", "e", "c", "t", "i", "o", "n", "1", ".", "x", "m", "l">>,
      section2 |-> <<"C", "o", "n", "t", "e", "n", "t", "s", "/", "s", "e", "c", "t", "i", "o", "n", "2", ".", "x", "m", "l">>,
      section10 |-> <<"C", "o", "n", "t", "e", "n", "t", "s", "/", "s", "e", "c", "t", "i", "o", "n", "1", "0", ".", "x", "m", "l">>,
      sectionfoo |-> <<"C", "o", "n", "t", "e", "n", "t", "s", "/", "s", "e", "c", "t", "i", "o", "n", "f", "o", "o", ".", "x", "m", "l">>,
      header |-> <<"C", "o", "n", "t", "e", "n", "t", "s", "/", "h", "e", "a", "d", "e", "r", ".", "x", "m", "l">>,
      docx_part |-> <<"w", "o", "r", "d", "/", "d", "o", "c", "u", "m", "e", "n", "t", ".", "x", "m", "l">>,
      xlsx_part |-> <<"x", "l", "/", "w", "o", "r", "k", "b", "o", "o", "k", ".", "x", "m", "l">> ]
SECTION_PREFIX == <<"C", "o", "n", "t", "e", "n", "t", "s", "/", "s", "e", "c", "t", "i", "o", "n">>
XML_SUFFIX == <<".", "x", "m", "l">>

\* zipfile.ZipFile(io.BytesIO(b)): "ok", "badzip" (BadZipFile) or "error"
ZipOpen(b) ==
    IF b.kind \in {"zip", "hwpx", "docx", "xlsx"} THEN "ok"
    ELSE IF b.kind = "zipfault" THEN "error"
    ELSE "badzip"

\* zf.namelist()
ZipNamelist(b) ==
    IF b.kind = "zip" THEN b.namelist
    ELSE IF b.kind = "hwpx" THEN [i \in 1..Len(b.parts) |-> b.parts[i].name]
    ELSE IF b.kind = "docx" THEN <<MEMBER.docx_part>>
    ELSE <<MEMBER.xlsx_part>>

\* zf.read(name) of the archive resolver: "ok", "badzip" or "error"
ZipRead(b) == IF b.kind = "zip" THEN b.read ELSE "error"

\* the bytes zf.read returns
ZipReadBytes(b) == b.inner

ASCII == <<".", "/", "0", "1", "2", "3", "4", "5", "6", "7", "8", "9", "A", "B", "C", "D", "E", "F", "G", "H", "I", "J", "K", "L", "M", "N", "O", "P", "Q", "R", "S", "T", "U", "V", "W", "X", "Y", "Z", "_", "a", "b", "c", "d", "e", "f", "g", "h", "i", "j", "k", "l", "m", "n", "o", "p", "q", "r", "s", "t", "u", "v", "w", "x", "y", "z">>

\* ord(c) up to the order of the characters
Ord(c) == CHOOSE i \in 1..Len(ASCII) : ASCII[i] = c

\* a < b on str
RECURSIVE StrLess(_, _)
StrLess(a, b) ==
    IF b = <<>> THEN FALSE
    ELSE IF a = <<>> THEN TRUE
    ELSE IF Head(a) = Head(b) THEN StrLess(Tail(a), Tail(b))
    ELSE Ord(Head(a)) < Ord(Head(b))

\* sorted(names)
RECURSIVE Sorted(_)
Sorted(names) ==
    IF names = <<>> THEN <<>>
    ELSE LET least == CHOOSE i \in 1..Len(names) :
                         \A j \in 1..Len(names) : ~StrLess(names[j], names[i])
         IN  <<names[least]>>
             \o Sorted([k \in 1..(Len(names) - 1) |->
                            IF k < least THEN names[k] ELSE names[k + 1]])

(***************************************************************************)
(* extract_from_hwpx                                                       *)
(***************************************************************************)
\* IsSectionFile without the test of the prefix
IsSectionFile_AnyXml(name) == EndsWith(name, XML_SUFFIX)

\* name.startswith('Contents/section') and name.endswith('.xml')
IsSectionFile(name) == StartsWith(name, SECTION_PREFIX) /\ EndsWith(name, XML_SUFFIX)

\* the part of the archive called name
PartNamed(b, name) ==
    b.parts[CHOOSE i \in 1..Len(b.parts) : b.parts[i].name = name]

\* an element of an XML tree: its text, its tail and its children
Elem(text, tail, children) == [text |-> text, tail |-> tail, children |-> children]

\* the sequences of a sequence, one after the other
RECURSIVE Concat(_)
Concat(seqs) == IF seqs = <<>> THEN <<>> ELSE Head(seqs) \o Concat(Tail(seqs))

\* root.iter(): the element, then the elements of each child's subtree, child by child
RECURSIVE RootIter(_)
RootIter(e) == <<e>> \o Concat([k \in 1..Len(e.children) |-> RootIter(e.children[k])])

\* the strings one element adds
ElemTexts(e) ==
    (IF NonBlank(e.text) THEN <<Strip(e.text)>> ELSE <<>>)
    \o (IF NonBlank(e.tail) THEN <<Strip(e.tail)>> ELSE <<>>)

\* the strings of the elements of root.iter(), in that order
RECURSIVE IterTexts(_)
IterTexts(elems) ==
    IF elems = <<>> THEN <<>> ELSE ElemTexts(Head(elems)) \o IterTexts(Tail(elems))

\* SectionTexts when the strings are collected while the section is parsed
SectionTexts_Partial(b, name) == IterTexts(RootIter(PartNamed(b, name).root))

\* one turn of "for section_file in section_files": a section that does not
\* decode or parse is skipped
SectionTexts(b, name) ==
    LET part == PartNamed(b, name)
    IN  IF ~part.ok THEN <<>> ELSE IterTexts(RootIter(part.root))

RECURSIVE HwpxTextParts(_, _)
HwpxTextParts(b, section_files) ==
    IF section_files = <<>> THEN <<>>
    ELSE SectionTexts(b, Head(section_files)) \o HwpxTextParts(b, Tail(section_files))

\* the result of extract_from_hwpx(b)
HwpxResult(b) ==
    IF ZipOpen(b) = "badzip" THEN "HWPX: Invalid file format."
    ELSE IF ZipOpen(b) = "error" THEN "HWPX extraction failed: " \o ErrMsg
    ELSE LET section_files == Sorted(SelectSeq(ZipNamelist(b), IsSectionFile))
             parts == IF b.kind = "hwpx" THEN HwpxTextParts(b, section_files) ELSE <<>>
         IN  IF parts # <<>> THEN Join("\n", parts)
             ELSE "HWPX: No text content found in sections."

(***************************************************************************)
(* extract_from_pdf.  A page is the text page.extract_text() returns, or   *)
(* "!raise" when it raises.                                                *)
(***************************************************************************)
RECURSIVE PdfTextParts(_, _)
PdfTextParts(pages, i) ==
    IF i > Len(pages) THEN <<>>
    ELSE (IF pages[i] # "!raise" /\ NonBlank(pages[i])
          THEN <<"[Page " \o ToString(i) \o "]\n" \o pages[i]>> ELSE <<>>)
         \o PdfTextParts(pages, i + 1)

\* PdfResult without the "if text_parts" test
PdfResult_NoEmptyCheck(b) ==
    IF ~HAS_PYPDF THEN "PDF extraction requires pypdf library."
    ELSE IF b.kind # "pdf" THEN "PDF extraction failed: " \o ErrMsg
    ELSE Join("\n\n", PdfTextParts(b.pages, 1))

\* PdfResult when the reader is built before the flag is tested
PdfResult_ParseFirst(b) ==
    IF b.kind # "pdf" THEN "PDF extraction failed: " \o ErrMsg
    ELSE IF ~HAS_PYPDF THEN "PDF extraction requires pypdf library."
    ELSE LET parts == PdfTextParts(b.pages, 1)
         IN  IF parts # <<>> THEN Join("\n\n", parts)
             ELSE "PDF: No extractable text found (may be image-based)."

\* PdfResult when the marker counts the pages that gave text
PdfResult_SurvivorNumbering(b) ==
    IF ~HAS_PYPDF THEN "PDF extraction requires pypdf library."
    ELSE IF b.kind # "pdf" THEN "PDF extraction failed: " \o ErrMsg
    ELSE LET kept == SelectSeq(b.pages, LAMBDA t : t # "!raise" /\ NonBlank(t))
             parts == [k \in 1..Len(kept) |-> "[Page " \o ToString(k) \o "]\n" \o kept[k]]
         IN  IF parts # <<>> THEN Join("\n\n", parts)
             ELSE "PDF: No extractable text found (may be image-based)."

\* the result of extract_from_pdf(b)
PdfResult(b) ==
    IF ~HAS_PYPDF THEN "PDF extraction requires pypdf library."
    ELSE IF b.kind # "pdf" THEN "PDF extraction failed: " \o ErrMsg
    ELSE LET parts == PdfTextParts(b.pages, 1)
         IN  IF parts # <<>> THEN Join("\n\n", parts)
             ELSE "PDF: No extractable text found (may be image-based)."

(***************************************************************************)
(* extract_from_docx                                                       *)
(***************************************************************************)
\* [t.strip() for t in texts if t and t.strip()]
RECURSIVE StrippedNonBlank(_)
StrippedNonBlank(texts) ==
    IF texts = <<>> THEN <<>>
    ELSE (IF NonBlank(Head(texts)) THEN <<Strip(Head(texts))>> ELSE <<>>)
         \o StrippedNonBlank(Tail(texts))

\* the lines of the rows of one table
RECURSIVE RowLines(_)
RowLines(rows) ==
    IF rows = <<>> THEN <<>>
    ELSE LET row_text == StrippedNonBlank(Head(rows))
         IN  (IF row_text # <<>> THEN <<Join(" | ", row_text)>> ELSE <<>>)
             \o RowLines(Tail(rows))

RECURSIVE TableLines(_)
TableLines(tables) ==
    IF tables = <<>> THEN <<>> ELSE RowLines(Head(tables)) \o TableLines(Tail(tables))

\* the result of extract_from_docx(b)
DocxResult(b) ==
    IF ~HAS_DOCX THEN "DOCX extraction requires python-docx library."
    ELSE IF b.kind # "docx" THEN "DOCX extraction failed: " \o ErrMsg
    ELSE LET parts == StrippedNonBlank(b.paragraphs) \o TableLines(b.tables)
         IN  IF parts # <<>> THEN Join("\n", parts)
             ELSE "DOCX: No text content found."

(***************************************************************************)
(* extract_from_xlsx.  A cell is str(cell.value), or "None".               *)
(***************************************************************************)
MAX_ROW == 500

\* [str(cell.value) for cell in row if cell.value is not None]
RowValues(row) == SelectSeq(row, LAMBDA v : v # "None")

\* the lines of the rows, in row order: "if row_values: sheet_text.append(...)"
RECURSIVE SheetRowLines(_)
SheetRowLines(rows) ==
    IF rows = <<>> THEN <<>>
    ELSE IF Len(rows) = 1
    THEN (IF RowValues(rows[1]) # <<>> THEN <<Join(" | ", RowValues(rows[1]))>> ELSE <<>>)
    ELSE LET half == Len(rows) \div 2
         IN  SheetRowLines(SubSeq(rows, 1, half))
             \o SheetRowLines(SubSeq(rows, half + 1, Len(rows)))

\* IterRows without max_row
IterRows_NoCap(sheet) == sheet.rows

\* sheet.iter_rows(max_row=500)
IterRows(sheet) ==
    SubSeq(sheet.rows, 1, IF Len(sheet.rows) < MAX_ROW THEN Len(sheet.rows) ELSE MAX_ROW)

\* sheet_text of one sheet
SheetText(sheet) ==
    <<"[Sheet: " \o sheet.name \o "]">> \o SheetRowLines(IterRows(sheet))

RECURSIVE XlsxTextParts(_)
XlsxTextParts(sheets) ==
    IF sheets = <<>> THEN <<>>
    ELSE (IF Len(SheetText(Head(sheets))) > 1
          THEN <<Join("\n", SheetText(Head(sheets)))>> ELSE <<>>)
         \o XlsxTextParts(Tail(sheets))

\* XlsxResult without the "if len(sheet_text) > 1" test
XlsxResult_KeepHeaders(b) ==
    IF ~HAS_OPENPYXL THEN "XLSX extraction requires openpyxl library."
    ELSE IF b.kind # "xlsx" THEN "XLSX extraction failed: " \o ErrMsg
    ELSE LET parts == [i \in 1..Len(b.sheets) |-> Join("\n", SheetText(b.sheets[i]))]
         IN  IF parts # <<>> THEN Join("\n\n", parts)
             ELSE "XLSX: No data found."

\* the result of extract_from_xlsx(b)
XlsxResult(b) ==
    IF ~HAS_OPENPYXL THEN "XLSX extraction requires openpyxl library."
    ELSE IF b.kind # "xlsx" THEN "XLSX extraction failed: " \o ErrMsg
    ELSE LET parts == XlsxTextParts(b.sheets)
         IN  IF parts # <<>> THEN Join("\n\n", parts)
             ELSE "XLSX: No data found."

(***************************************************************************)
(* Calls and returns.  stack holds the functions that are running, pc the  *)
(* place in the running one, result the value being returned.              *)
(***************************************************************************)
\* the file_bytes argument of the running function
CurBytes ==
    IF \E i \in 1..(Len(stack) - 1) : stack[i] = "extract_from_zip"
    THEN inner_bytes ELSE file_bytes

\* where a function starts
StartPc(fn) ==
    CASE fn = "extract_text_from_bytes" -> "disp"
      [] fn = "extract_from_zip" -> "zip_open"
      [] fn = "extract_from_hwp" -> "hwp_start"
      [] fn = "_extract_from_hwp_olefile" -> "ole_start"
      [] fn = "extract_from_hwpx" -> "hwpx"
      [] fn = "extract_from_pdf" -> "pdf"
      [] fn = "extract_from_docx" -> "docx"
      [] fn = "extract_from_xlsx" -> "xlsx"
      [] fn = "select_best_file_from_zip" -> "sel_filter"

\* where the caller goes on when the running function returns
ReturnPc ==
    IF Len(stack) = 1 THEN "done"
    ELSE LET caller == stack[Len(stack) - 1]
         IN  CASE caller = "extract_text_from_bytes" -> "disp_return"
               [] caller = "extract_from_zip" -> "zip_wrap"
               [] caller = "extract_from_hwp" ->
                      IF HAS_HWPLOADER THEN "hwp_finally" ELSE "hwp_return"

\* calls is the history of the calls: the function called and its caller
Call(fn) ==
    /\ stack' = Append(stack, fn)
    /\ calls' = Append(calls, [fn |-> fn, caller |-> stack[Len(stack)]])
    /\ pc' = StartPc(fn)

Return(v) ==
    /\ result' = v
    /\ stack' = SubSeq(stack, 1, Len(stack) - 1)
    /\ pc' = ReturnPc

(***************************************************************************)
(* _extract_from_hwp_olefile                                               *)
(***************************************************************************)
SECTION_CAP == 100

\* olefile.OleFileIO(io.BytesIO(b)) opens the container, or raises
OleOpens(b) == b.kind = "hwp"

\* SectionExists when every index is taken to exist
SectionExists_Always(b, i) == TRUE

\* ole.exists('BodyText/Section<i>')
SectionExists(b, i) == i \in b.sections

\* re.findall(...) on the decoded data of section i
SectionReadable(b, i) == IF i \in b.silent THEN <<>> ELSE <<"body" \o ToString(i)>>

\* OleExistsEncrypted when the stream is looked up under another name
OleExistsEncrypted_Never(b) == FALSE

\* ole.exists('EncryptedPackage')
OleExistsEncrypted(b) == b.encrypted

\* if not HAS_OLEFILE: return ...
ole_start ==
    /\ pc = "ole_start"
    /\ IF ~HAS_OLEFILE
       THEN Return("HWP extraction requires olefile or langchain-teddynote library.")
       ELSE pc' = "ole_open" /\ UNCHANGED <<stack, result>>
    /\ UNCHANGED <<concVars, capVars, argVars, calls, selVars, inner_bytes, hwpVars, oleVars>>

\* ole = olefile.OleFileIO(...)
ole_open ==
    /\ pc = "ole_open"
    /\ IF OleOpens(CurBytes)
       THEN ole' = "open" /\ pc' = "ole_encrypted"
       ELSE ole' = ole /\ pc' = "ole_except"
    /\ UNCHANGED <<concVars, capVars, argVars, stack, calls, result, selVars, inner_bytes, hwpVars,
                   streams_read, text_parts, section_i>>

\* if ole.exists('EncryptedPackage'): return ...;  text_parts = []
ole_encrypted ==
    /\ pc = "ole_encrypted"
    /\ IF OleExistsEncrypted(CurBytes)
       THEN Return("HWP Protected: This file is encrypted.") /\ UNCHANGED text_parts
       ELSE pc' = "ole_prvtext" /\ text_parts' = <<>> /\ UNCHANGED <<stack, result>>
    /\ UNCHANGED <<concVars, capVars, argVars, calls, selVars, inner_bytes, hwpVars,
                   ole, streams_read, section_i>>

\* if ole.exists('PrvText'): ...  (prv "exists_fault": ole.exists itself raises, which
\* no inner handler catches; prv "fault": reading the stream raises, which is passed)
ole_prvtext ==
    /\ pc = "ole_prvtext"
    /\ IF CurBytes.prv = "exists_fault"
       THEN /\ pc' = "ole_except"
            /\ UNCHANGED <<streams_read, text_parts, section_i>>
       ELSE /\ IF CurBytes.prv = "absent"
               THEN UNCHANGED <<streams_read, text_parts>>
               ELSE /\ streams_read' = Append(streams_read, "PrvText")
                    /\ text_parts' = IF CurBytes.prv = "text"
                                     THEN Append(text_parts, "preview") ELSE text_parts
            /\ section_i' = 0
            /\ pc' = "ole_sections"
    /\ UNCHANGED <<concVars, capVars, argVars, stack, calls, result, selVars, inner_bytes, hwpVars, ole>>

\* one turn of "for i in range(100)", or its end
ole_sections ==
    /\ pc = "ole_sections"
    /\ IF section_i < SECTION_CAP /\ SectionExists(CurBytes, section_i)
       THEN /\ streams_read' = Append(streams_read, "BodyText/Section" \o ToString(section_i))
            /\ text_parts' = text_parts \o SectionReadable(CurBytes, section_i)
            /\ section_i' = section_i + 1
            /\ pc' = pc
       ELSE /\ pc' = "ole_close"
            /\ UNCHANGED <<streams_read, text_parts, section_i>>
    /\ UNCHANGED <<concVars, capVars, argVars, stack, calls, result, selVars, inner_bytes, hwpVars, ole>>

\* ole.close() and the two returns that follow
ole_close ==
    /\ pc = "ole_close"
    /\ ole' = "closed"
    /\ IF text_parts # <<>>
       THEN Return(Join("\n", text_parts))
       ELSE Return("HWP: Could not extract text. File may use unsupported encoding.")
    /\ UNCHANGED <<concVars, capVars, argVars, calls, selVars, inner_bytes, hwpVars,
                   streams_read, text_parts, section_i>>

\* except Exception as e: return f"HWP extraction failed: {str(e)}"
ole_except ==
    /\ pc = "ole_except"
    /\ Return("HWP extraction failed: " \o ErrMsg)
    /\ UNCHANGED <<concVars, capVars, argVars, calls, selVars, inner_bytes, hwpVars, oleVars>>

(***************************************************************************)
(* extract_from_hwp.  fs is the set of temporary files that exist.         *)
(***************************************************************************)
TempName == "tmp.hwp"

\* the outcomes of creating and writing the temporary file
TempOutcomes == {"ok", "create_fault", "write_fault"}

\* the outcomes of os.unlink
UnlinkOutcomes == {"ok", "fault"}

\* list(HWPLoader(...).lazy_load()): the page_content of the documents, or raises
LoaderRaises(b) == IF b.kind = "hwp" THEN b.loader.raises ELSE TRUE
LoaderDocuments(b) == b.loader.docs

\* if HAS_HWPLOADER: temp_file_path = None ... else: return _extract_from_hwp_olefile(...)
hwp_start ==
    /\ pc = "hwp_start"
    /\ IF HAS_HWPLOADER
       THEN /\ temp_file_path' = "None"
            /\ pc' = "hwp_tempfile"
            /\ UNCHANGED <<stack, calls>>
       ELSE /\ Call("_extract_from_hwp_olefile")
            /\ UNCHANGED temp_file_path
    /\ UNCHANGED <<concVars, capVars, argVars, result, selVars, inner_bytes, fs, documents, oleVars>>

\* with tempfile.NamedTemporaryFile(..., delete=False) as temp_file: write; name
hwp_tempfile ==
    /\ pc = "hwp_tempfile"
    /\ \E outcome \in TempOutcomes :
          /\ fs' = IF outcome = "create_fault" THEN fs ELSE fs \cup {TempName}
          /\ temp_file_path' = IF outcome = "ok" THEN TempName ELSE temp_file_path
          /\ pc' = IF outcome = "ok" THEN "hwp_load" ELSE "hwp_except"
    /\ UNCHANGED <<concVars, capVars, argVars, stack, calls, result, selVars, inner_bytes,
                   documents, oleVars>>

\* loader = HWPLoader(...); documents = list(loader.lazy_load())
hwp_load ==
    /\ pc = "hwp_load"
    /\ IF LoaderRaises(CurBytes)
       THEN pc' = "hwp_except" /\ UNCHANGED documents
       ELSE pc' = "hwp_documents" /\ documents' = LoaderDocuments(CurBytes)
    /\ UNCHANGED <<concVars, capVars, argVars, stack, calls, result, selVars, inner_bytes,
                   temp_file_path, fs, oleVars>>

\* LoaderTextParts without the test of strip()
LoaderTextParts_All(docs) == docs

\* [doc.page_content for doc in documents if doc.page_content.strip()]
LoaderTextParts(docs) == SelectSeq(docs, NonBlank)

\* if documents: ... return '\n\n'.join(text_parts);  return _extract_from_hwp_olefile(...)
hwp_documents ==
    /\ pc = "hwp_documents"
    /\ IF LoaderTextParts(documents) # <<>>
       THEN /\ result' = Join("\n\n", LoaderTextParts(documents))
            /\ pc' = "hwp_finally"
            /\ UNCHANGED <<stack, calls>>
       ELSE /\ Call("_extract_from_hwp_olefile")
            /\ UNCHANGED result
    /\ UNCHANGED <<concVars, capVars, argVars, selVars, inner_bytes, hwpVars, oleVars>>

\* except Exception as e: ... return _extract_from_hwp_olefile(file_bytes)
hwp_except ==
    /\ pc = "hwp_except"
    /\ Call("_extract_from_hwp_olefile")
    /\ UNCHANGED <<concVars, capVars, argVars, result, selVars, inner_bytes, hwpVars, oleVars>>

\* finally: if temp_file_path and os.path.exists(temp_file_path): os.unlink(...)
hwp_finally ==
    /\ pc = "hwp_finally"
    /\ IF temp_file_path # "None" /\ temp_file_path \in fs
       THEN \E outcome \in UnlinkOutcomes :
                fs' = IF outcome = "ok" THEN fs \ {temp_file_path} ELSE fs
       ELSE UNCHANGED fs
    /\ pc' = "hwp_return"
    /\ UNCHANGED <<concVars, capVars, argVars, stack, calls, result, selVars, inner_bytes,
                   temp_file_path, documents, oleVars>>

\* the return of extract_from_hwp, after the finally clause
hwp_return ==
    /\ pc = "hwp_return"
    /\ Return(result)
    /\ UNCHANGED <<concVars, capVars, argVars, calls, selVars, inner_bytes, hwpVars, oleVars>>

(***************************************************************************)
(* The extractors without side effects.                                    *)
(***************************************************************************)
extract_from_hwpx ==
    /\ pc = "hwpx"
    /\ Return(HwpxResult(CurBytes))
    /\ UNCHANGED <<concVars, capVars, argVars, calls, selVars, inner_bytes, hwpVars, oleVars>>

extract_from_pdf ==
    /\ pc = "pdf"
    /\ Return(PdfResult(CurBytes))
    /\ UNCHANGED <<concVars, capVars, argVars, calls, selVars, inner_bytes, hwpVars, oleVars>>

extract_from_docx ==
    /\ pc = "docx"
    /\ Return(DocxResult(CurBytes))
    /\ UNCHANGED <<concVars, capVars, argVars, calls, selVars, inner_bytes, hwpVars, oleVars>>

extract_from_xlsx ==
    /\ pc = "xlsx"
    /\ Return(XlsxResult(CurBytes))
    /\ UNCHANGED <<concVars, capVars, argVars, calls, selVars, inner_bytes, hwpVars, oleVars>>

(***************************************************************************)
(* extract_from_zip                                                        *)
(***************************************************************************)
LIST_SHOWN == 10

\* FirstNames taken from the entries that pass the filter of the selection
FirstNames_Eligible(names) ==
    LET kept == SelectSeq(names, IsValidFile)
    IN  SubSeq(kept, 1, IF Len(kept) < LIST_SHOWN THEN Len(kept) ELSE LIST_SHOWN)

\* file_list[:10]
FirstNames(names) ==
    SubSeq(names, 1, IF Len(names) < LIST_SHOWN THEN Len(names) ELSE LIST_SHOWN)

\* InnerExt without .lower()
InnerExt_NoLower(name) == PathSuffix(name)

\* inner_ext = Path(best_file).suffix.lower()
InnerExt(name) == Lower(PathSuffix(name))

\* InnerHandler with the .pdf and .docx branches exchanged
InnerHandler_Swapped(inner_ext) ==
    IF inner_ext = EXT_HWP THEN "extract_from_hwp"
    ELSE IF inner_ext = EXT_HWPX THEN "extract_from_hwpx"
    ELSE IF inner_ext = EXT_PDF THEN "extract_from_docx"
    ELSE IF inner_ext = EXT_DOCX THEN "extract_from_pdf"
    ELSE IF inner_ext = EXT_XLSX THEN "extract_from_xlsx"
    ELSE "unsupported"

\* InnerHandler with a .zip branch that calls extract_from_zip again
InnerHandler_Recursive(inner_ext) ==
    IF inner_ext = EXT_ZIP THEN "extract_from_zip"
    ELSE IF inner_ext = EXT_HWP THEN "extract_from_hwp"
    ELSE IF inner_ext = EXT_HWPX THEN "extract_from_hwpx"
    ELSE IF inner_ext = EXT_PDF THEN "extract_from_pdf"
    ELSE IF inner_ext = EXT_DOCX THEN "extract_from_docx"
    ELSE IF inner_ext = EXT_XLSX THEN "extract_from_xlsx"
    ELSE "unsupported"

\* InnerHandler with .xls handed to the XLSX extractor, as the dispatcher does
InnerHandler_XlsAsXlsx(inner_ext) ==
    IF inner_ext = EXT_HWP THEN "extract_from_hwp"
    ELSE IF inner_ext = EXT_HWPX THEN "extract_from_hwpx"
    ELSE IF inner_ext = EXT_PDF THEN "extract_from_pdf"
    ELSE IF inner_ext = EXT_DOCX THEN "extract_from_docx"
    ELSE IF inner_ext \in {EXT_XLSX, EXT_XLS} THEN "extract_from_xlsx"
    ELSE "unsupported"

\* the if/elif chain on inner_ext: the extractor called, or "unsupported"
InnerHandler(inner_ext) ==
    IF inner_ext = EXT_HWP THEN "extract_from_hwp"
    ELSE IF inner_ext = EXT_HWPX THEN "extract_from_hwpx"
    ELSE IF inner_ext = EXT_PDF THEN "extract_from_pdf"
    ELSE IF inner_ext = EXT_DOCX THEN "extract_from_docx"
    ELSE IF inner_ext = EXT_XLSX THEN "extract_from_xlsx"
    ELSE "unsupported"

\* ZipFaultMessage without the "except zipfile.BadZipFile" clause
ZipFaultMessage_Generic(outcome) == "ZIP extraction failed: " \o ErrMsg

\* the two except clauses: BadZipFile, and any other exception
ZipFaultMessage(outcome) ==
    IF outcome = "badzip" THEN "ZIP: Invalid or corrupted archive."
    ELSE "ZIP extraction failed: " \o ErrMsg

\* with zipfile.ZipFile(...) as zf: file_list = zf.namelist(); select_best_file_from_zip(...)
zip_open ==
    /\ pc = "zip_open"
    /\ IF ZipOpen(CurBytes) = "ok"
       THEN /\ file_list' = ZipNamelist(CurBytes)
            /\ Call("select_best_file_from_zip")
            /\ UNCHANGED result
       ELSE /\ Return(ZipFaultMessage(ZipOpen(CurBytes)))
            /\ UNCHANGED <<file_list, calls>>
    /\ UNCHANGED <<concVars, capVars, argVars, valid_files, best_file, tiers, inner_bytes,
                   hwpVars, oleVars>>

\* if not best_file: return ...;  inner_bytes = zf.read(best_file)
zip_selected ==
    /\ pc = "zip_selected"
    /\ IF best_file = NoFile \/ best_file = <<>>
       THEN /\ Return("ZIP: No suitable document found. Files in archive: "
                      \o Join(", ", [i \in 1..Len(FirstNames(file_list)) |->
                                        Str(FirstNames(file_list)[i])]))
            /\ UNCHANGED inner_bytes
       ELSE IF ZipRead(CurBytes) = "ok"
       THEN /\ inner_bytes' = ZipReadBytes(CurBytes)
            /\ pc' = "zip_inner"
            /\ UNCHANGED <<stack, result>>
       ELSE /\ Return(ZipFaultMessage(ZipRead(CurBytes)))
            /\ UNCHANGED inner_bytes
    /\ UNCHANGED <<concVars, capVars, argVars, calls, selVars, hwpVars, oleVars>>

\* inner_ext = Path(best_file).suffix.lower() and the if/elif chain
zip_inner ==
    /\ pc = "zip_inner"
    /\ LET inner_ext == InnerExt(best_file)
       IN  IF InnerHandler(inner_ext) = "unsupported"
           THEN /\ result' = "ZIP: Unsupported inner file format: " \o Str(inner_ext)
                /\ pc' = "zip_wrap"
                /\ UNCHANGED <<stack, calls>>
           ELSE /\ Call(InnerHandler(inner_ext))
                /\ UNCHANGED result
    /\ UNCHANGED <<concVars, capVars, argVars, selVars, inner_bytes, hwpVars, oleVars>>

\* Wrapped when the fault of an inner extractor reaches the except clause of the archive
Wrapped_InnerFaultAsZip(name, inner_result) ==
    IF inner_result \in {f \o " extraction failed: " \o ErrMsg : f \in {"HWP", "HWPX", "PDF", "DOCX", "XLSX"}}
    THEN "ZIP extraction failed: " \o ErrMsg
    ELSE "[Extracted from ZIP: " \o Str(name) \o "]\n\n" \o inner_result

\* f"[Extracted from ZIP: {best_file}]\n\n{result}"
Wrapped(name, inner_result) ==
    "[Extracted from ZIP: " \o Str(name) \o "]\n\n" \o inner_result

\* return f"[Extracted from ZIP: {best_file}]\n\n{result}"
zip_wrap ==
    /\ pc = "zip_wrap"
    /\ Return(Wrapped(best_file, result))
    /\ UNCHANGED <<concVars, capVars, argVars, calls, selVars, inner_bytes, hwpVars, oleVars>>

(***************************************************************************)
(* extract_text_from_bytes                                                 *)
(***************************************************************************)
\* DispatchExt without .lower()
DispatchExt_NoLower(name) == PathSuffix(name)

\* ext = Path(filename).suffix.lower()
DispatchExt(name) == Lower(PathSuffix(name))

\* the if/elif chain on ext: the function called, or "unsupported"
Handler(ext) ==
    IF ext = EXT_ZIP THEN "extract_from_zip"
    ELSE IF ext = EXT_HWP THEN "extract_from_hwp"
    ELSE IF ext = EXT_HWPX THEN "extract_from_hwpx"
    ELSE IF ext = EXT_PDF THEN "extract_from_pdf"
    ELSE IF ext = EXT_DOCX THEN "extract_from_docx"
    ELSE IF ext \in {EXT_XLSX, EXT_XLS} THEN "extract_from_xlsx"
    ELSE "unsupported"

\* UnsupportedMessage without the link
UnsupportedMessage_NoUrl(ext, u) ==
    "Unsupported file format: " \o Str(ext) \o ". Please check the manual link: "

\* the else branch
UnsupportedMessage(ext, u) ==
    "Unsupported file format: " \o Str(ext) \o ". Please check the manual link: " \o u

extract_text_from_bytes ==
    /\ pc = "disp"
    /\ LET ext == DispatchExt(filename)
       IN  IF Handler(ext) = "unsupported"
           THEN /\ Return(UnsupportedMessage(ext, url))
                /\ UNCHANGED calls
           ELSE /\ Call(Handler(ext))
                /\ UNCHANGED result
    /\ UNCHANGED <<concVars, capVars, argVars, selVars, inner_bytes, hwpVars, oleVars>>

\* "return extract_from_...(...)": the value of the call is returned
dispatch_return ==
    /\ pc = "disp_return"
    /\ Return(result)
    /\ UNCHANGED <<concVars, capVars, argVars, calls, selVars, inner_bytes, hwpVars, oleVars>>

(***************************************************************************)
(* The inputs of the calls.                                                *)
(***************************************************************************)
\* pages of a PDF, sections of an OLE container
MaxPages == 2
MaxSections == 2

Empty == [kind |-> "empty"]
Garbage == [kind |-> "garbage"]
ZipFault == [kind |-> "zipfault"]
NoBytes == [kind |-> "none"]

Loaders ==
    {[raises |-> TRUE, docs |-> <<>>], [raises |-> FALSE, docs |-> <<>>],
     [raises |-> FALSE, docs |-> <<" ", "">>],
     [raises |-> FALSE, docs |-> <<"loaded 1", " ", "loaded 2">>]}

HwpContents ==
    {[kind |-> "hwp", loader |-> l, encrypted |-> e, prv |-> p, sections |-> sc, silent |-> sl] :
        l \in Loaders, e \in BOOLEAN, p \in {"absent", "blank", "text", "fault"},
        sc \in SUBSET (0..(MaxSections - 1)), sl \in {{}, {0}}}

PdfContents ==
    {[kind |-> "pdf", pages |-> pg] :
        pg \in UNION {[1..n -> {"page text", " ", "", "!raise"}] : n \in 0..MaxPages}}

DocxContents ==
    {[kind |-> "docx", paragraphs |-> pa, tables |-> tb] :
        pa \in {<<>>, <<" ", "">>, <<" x ", " ", "para">>},
        tb \in {<<>>, << << <<" ", "">> >> >>, << << <<"c1", " ", " x ">>, <<"">> >>, << <<"c2">> >> >>}}

XlsxContents ==
    {[kind |-> "xlsx", sheets |-> sh] :
        sh \in {<<>>,
                <<[name |-> "S1", rows |-> << <<"None", "None">> >>]>>,
                <<[name |-> "S1", rows |-> <<>>],
                  [name |-> "S2", rows |-> << <<"1", "None", "2">>, <<"None">>, <<"3">> >>]>>}}

\* a workbook with more rows than iter_rows yields: a sheet with a value in every
\* row, and one whose third row is empty
BigXlsx ==
    [kind |-> "xlsx",
     sheets |-> <<[name |-> "Full", rows |-> [i \in 1..(MAX_ROW + 100) |-> <<"r" \o ToString(i)>>]],
                  [name |-> "Gap",
                   rows |-> [i \in 1..(MAX_ROW + 2) |->
                               IF i = 3 THEN <<"None", "None">>
                               ELSE <<"None", "a" \o ToString(i), "b">>]]>>]

\* a workbook whose first sheet has its only value in the row after the last one
\* iter_rows yields, followed by a sheet with one value and a sheet without rows
LateXlsx ==
    [kind |-> "xlsx",
     sheets |-> <<[name |-> "Late",
                   rows |-> [i \in 1..(MAX_ROW + 1) |->
                               IF i = MAX_ROW + 1 THEN <<"late">> ELSE <<"None">>]],
                  [name |-> "Data", rows |-> << <<"None", "v">> >>],
                  [name |-> "Void", rows |-> <<>>]>>]

\* a part of an HWPX archive: its name, whether it decodes and parses, and its tree
Part(name, ok, root) == [name |-> name, ok |-> ok, root |-> root]
Leaf(text, tail) == Elem(text, tail, <<>>)
\* a part that does not decode or parse: the tree stands for what its bytes hold
Broken == Leaf("unparsed", "")

\* <r><a>A<b>B</b>C</a>D</r>
NestedRoot == Elem("", "", <<Elem("A", "D", <<Leaf("B", "C")>>)>>)

HwpxContents ==
    {[kind |-> "hwpx", parts |-> pt] :
        pt \in {<<>>,
                <<Part(MEMBER.header, TRUE, Leaf("head", ""))>>,
                <<Part(MEMBER.section0, TRUE, Leaf(" ", ""))>>,
                <<Part(MEMBER.section1, TRUE, Elem("", "", <<Leaf(" x ", "t1")>>)),
                  Part(MEMBER.section0, FALSE, Broken)>>,
                <<Part(MEMBER.section1, TRUE, Leaf("s1", "")),
                  Part(MEMBER.header, TRUE, Leaf("head", "")),
                  Part(MEMBER.section0, TRUE, Elem("s0", "", <<Leaf("", "t0")>>))>>,
                <<Part(MEMBER.section2, TRUE, Leaf("s2", "")),
                  Part(MEMBER.section10, TRUE, Leaf("s10", ""))>>,
                <<Part(MEMBER.section10, TRUE, Leaf("s10", "")),
                  Part(MEMBER.section0, TRUE, Leaf("s0", "")),
                  Part(MEMBER.section2, FALSE, Broken),
                  Part(MEMBER.section1, TRUE, Leaf("s1", ""))>>,
                <<Part(MEMBER.section0, TRUE, NestedRoot)>>,
                <<Part(MEMBER.section0, TRUE, Leaf("s0", "")),
                  Part(MEMBER.section1, FALSE, Broken),
                  Part(MEMBER.section2, TRUE, NestedRoot)>>,
                <<Part(MEMBER.section0, FALSE, Broken), Part(MEMBER.section1, FALSE, Broken)>>,
                <<Part(MEMBER.sectionfoo, TRUE, Leaf("foo", "")),
                  Part(MEMBER.header, TRUE, Leaf("head", ""))>>}}

EncryptedHwp ==
    [kind |-> "hwp", loader |-> [raises |-> TRUE, docs |-> <<>>], encrypted |-> TRUE,
     prv |-> "text", sections |-> {0}, silent |-> {}]
EncryptedLoadedHwp ==
    [kind |-> "hwp", loader |-> [raises |-> FALSE, docs |-> <<"loaded 1">>], encrypted |-> TRUE,
     prv |-> "text", sections |-> {0}, silent |-> {}]
PlainHwp ==
    [kind |-> "hwp", loader |-> [raises |-> FALSE, docs |-> <<" ">>], encrypted |-> FALSE,
     prv |-> "text", sections |-> {0}, silent |-> {}]
\* a container that opens and whose lookup of the preview stream raises
FaultyHwp ==
    [kind |-> "hwp", loader |-> [raises |-> TRUE, docs |-> <<>>], encrypted |-> FALSE,
     prv |-> "exists_fault", sections |-> {0}, silent |-> {}]
\* a container with more body sections than the loop visits (0 .. 100), and one
\* whose sections 0 and 1 are followed by a gap and section 3
DeepHwp ==
    [kind |-> "hwp", loader |-> [raises |-> TRUE, docs |-> <<>>], encrypted |-> FALSE,
     prv |-> "text", sections |-> 0..SECTION_CAP, silent |-> {}]
GapHwp ==
    [kind |-> "hwp", loader |-> [raises |-> FALSE, docs |-> <<>>], encrypted |-> FALSE,
     prv |-> "text", sections |-> {0, 1, 3}, silent |-> {1}]
OnePagePdf == [kind |-> "pdf", pages |-> <<"page text">>]
BlankPdf == [kind |-> "pdf", pages |-> <<" ">>]
SomeDocx == [kind |-> "docx", paragraphs |-> <<"para">>, tables |-> <<>>]
SomeXlsx == [kind |-> "xlsx", sheets |-> <<[name |-> "S1", rows |-> << <<"1", "None">> >>]>>]
SomeHwpx ==
    [kind |-> "hwpx",
     parts |-> <<[name |-> MEMBER.section0, ok |-> TRUE, root |-> [text |-> "s0", tail |-> "", children |-> <<>>]]>>]

\* an archive: its listing, what zf.read does, and the bytes it returns
Zip(listing, read, inner) ==
    [kind |-> "zip", namelist |-> listing, read |-> read, inner |-> inner]

\* an archive whose selected entry is an archive with the same listing
NestedZip == Zip(<<ENTRY.task_zip, ENTRY.pdf>>, "ok", Garbage)

InnerContents ==
    {Empty, Garbage, ZipFault, EncryptedHwp, EncryptedLoadedHwp, PlainHwp, OnePagePdf, BlankPdf,
     SomeDocx, SomeXlsx, SomeHwpx, NestedZip}

ZipListings ==
    {<<>>, <<ENTRY.txt>>, <<ENTRY.dir_prop, ENTRY.mac_prop, ENTRY.hid_task, ENTRY.txt>>,
     [i \in 1..(LIST_SHOWN + 1) |-> IF i = LIST_SHOWN + 1 THEN ENTRY.mac_prop ELSE ENTRY.txt],
     <<ENTRY.pdf>>, <<ENTRY.pdf, ENTRY.hwp>>, <<ENTRY.HWPX, ENTRY.hwp>>, <<ENTRY.txt, ENTRY.docx>>,
     <<ENTRY.txt, ENTRY.task_xlsx>>, <<ENTRY.hwp, ENTRY.prop_xls>>, <<ENTRY.task_zip, ENTRY.pdf>>,
     <<ENTRY.mac_prop, ENTRY.submac_hwp>>, <<ENTRY.hiddir_docx>>, <<ENTRY.pdf, ENTRY.prop_hwp>>}

ZipContents ==
    {Zip(l, "ok", in) : l \in ZipListings, in \in InnerContents}
    \cup {Zip(l, r, Garbage) : l \in ZipListings, r \in {"badzip", "error"}}

\* the buffers handed to the dispatcher
DispatchContents ==
    {Empty, Garbage, ZipFault, EncryptedHwp, EncryptedLoadedHwp, PlainHwp, OnePagePdf,
     BlankPdf, SomeDocx, SomeXlsx, SomeHwpx,
     Zip(<<ENTRY.pdf, ENTRY.hwp>>, "ok", EncryptedHwp), Zip(<<ENTRY.task_zip, ENTRY.pdf>>, "ok", NestedZip),
     Zip(<<ENTRY.txt, ENTRY.task_xlsx>>, "ok", SomeXlsx), Zip(<<ENTRY.pdf>>, "error", Garbage)}

FILENAME ==
    [ zip |-> <<"a", ".", "z", "i", "p">>,
      ZIP |-> <<"A", ".", "Z", "I", "P">>,
      hwp |-> <<"b", ".", "h", "w", "p">>,
      Hwpx |-> <<"c", ".", "H", "w", "p", "x">>,
      pdf |-> <<"d", ".", "t", "a", "r", ".", "p", "d", "f">>,
      docx |-> <<"e", ".", "D", "O", "C", "X">>,
      xlsx |-> <<"f", ".", "x", "l", "s", "x">>,
      xls |-> <<"g", ".", "X", "L", "S">>,
      txt |-> <<"f", ".", "t", "x", "t">>,
      noext |-> <<"r", "e", "a", "d", "m", "e">>,
      dotzip |-> <<".", "z", "i", "p">>,
      zipdot |-> <<"a", ".", "z", "i", "p", ".">>,
      zipslash |-> <<"a", ".", "z", "i", "p", "/">>,
      dirdot |-> <<"a", ".", "b", "/", "c">> ]

Filenames ==
    {FILENAME.zip, FILENAME.ZIP, FILENAME.hwp, FILENAME.Hwpx, FILENAME.pdf, FILENAME.docx, FILENAME.xlsx, FILENAME.xls,
     FILENAME.txt, FILENAME.noext, FILENAME.dotzip, FILENAME.zipdot, FILENAME.zipslash, FILENAME.dirdot}

Urls == {"", "https://example.org/f.txt"}

\* the functions called from outside
Entries ==
    {"extract_text_from_bytes", "extract_from_zip", "extract_from_hwp",
     "extract_from_hwpx", "extract_from_pdf", "extract_from_docx", "extract_from_xlsx"}

\* the buffers each of them is called with
ContentsFor(e) ==
    CASE e = "extract_text_from_bytes" -> DispatchContents
      [] e = "extract_from_zip" -> ZipContents \cup {Empty, Garbage, ZipFault, SomeDocx}
      [] e = "extract_from_hwp" -> HwpContents \cup {Empty, Garbage, DeepHwp, GapHwp, FaultyHwp}
      [] e = "extract_from_hwpx" -> HwpxContents \cup {Empty, Garbage, ZipFault, SomeDocx}
      [] e = "extract_from_pdf" -> PdfContents \cup {Empty, Garbage}
      [] e = "extract_from_docx" -> DocxContents \cup {Empty, Garbage}
      [] e = "extract_from_xlsx" -> XlsxContents \cup {Empty, Garbage, BigXlsx, LateXlsx}

(***************************************************************************)
(* State before a call.                                                    *)
(***************************************************************************)
InitLocals ==
    /\ stack = <<entry>>
    /\ calls = <<[fn |-> entry, caller |-> "caller"]>>
    /\ pc = StartPc(entry)
    /\ result = ""
    /\ valid_files = <<>>
    /\ best_file = NoFile
    /\ tiers = <<>>
    /\ inner_bytes = NoBytes
    /\ temp_file_path = "None"
    /\ fs = {}
    /\ documents = <<>>
    /\ ole = "none"
    /\ streams_read = <<>>
    /\ text_parts = <<>>
    /\ section_i = 0
    /\ sites = <<>>
    /\ disk = <<>>

\* a call of one of the entry points, with the capabilities found at import
Init ==
    /\ HAS_OLEFILE \in BOOLEAN /\ HAS_HWPLOADER \in BOOLEAN /\ HAS_PYPDF \in BOOLEAN
    /\ HAS_DOCX \in BOOLEAN /\ HAS_OPENPYXL \in BOOLEAN
    /\ entry \in Entries
    /\ file_bytes \in ContentsFor(entry)
    /\ filename \in (IF entry = "extract_text_from_bytes" THEN Filenames ELSE {<<>>})
    /\ url \in (IF entry = "extract_text_from_bytes" THEN Urls ELSE {""})
    /\ file_list = <<>>
    /\ InitLocals

Next ==
    \/ extract_text_from_bytes \/ dispatch_return
    \/ zip_open \/ zip_selected \/ zip_inner \/ zip_wrap
    \/ select_filter \/ select_priority1 \/ select_priority2 \/ select_priority3
    \/ hwp_start \/ hwp_tempfile \/ hwp_load \/ hwp_documents \/ hwp_except
    \/ hwp_finally \/ hwp_return
    \/ ole_start \/ ole_open \/ ole_encrypted \/ ole_prvtext \/ ole_sections
    \/ ole_close \/ ole_except
    \/ extract_from_hwpx \/ extract_from_pdf \/ extract_from_docx \/ extract_from_xlsx

Spec == Init /\ [][Next]_vars

\* a direct call of select_best_file_from_zip with any listing
SelInit ==
    /\ HAS_OLEFILE = TRUE /\ HAS_HWPLOADER = TRUE /\ HAS_PYPDF = TRUE
    /\ HAS_DOCX = TRUE /\ HAS_OPENPYXL = TRUE
    /\ entry = "select_best_file_from_zip"
    /\ filename = <<>> /\ url = "" /\ file_bytes = NoBytes
    /\ file_list \in ListingsUpTo(MaxEntries)
    /\ InitLocals

SelNext == select_filter \/ select_priority1 \/ select_priority2 \/ select_priority3

SelSpec == SelInit /\ [][SelNext]_vars

(***************************************************************************)
(* The claims.                                                             *)
(***************************************************************************)
\* the functions called so far with caller c
CalledBy(c) == {i \in 1..Len(calls) : calls[i].caller = c}
\* the calls of fn so far
CallsOf(fn) == {i \in 1..Len(calls) : calls[i].fn = fn}

RecognizedExts == {EXT_ZIP, EXT_HWP, EXT_HWPX, EXT_PDF, EXT_DOCX, EXT_XLSX, EXT_XLS}
InnerExts == {EXT_HWP, EXT_HWPX, EXT_PDF, EXT_DOCX, EXT_XLSX}

\* the places where a step of some function is defined: the call goes on there
Running ==
    pc \in {"disp", "disp_return", "zip_open", "zip_selected", "zip_inner", "zip_wrap",
            "sel_filter", "sel_p1", "sel_p2", "sel_p3",
            "hwp_start", "hwp_tempfile", "hwp_load", "hwp_documents", "hwp_except",
            "hwp_finally", "hwp_return",
            "ole_start", "ole_open", "ole_encrypted", "ole_prvtext", "ole_sections",
            "ole_close", "ole_except", "hwpx", "pdf", "docx", "xlsx"}

\* the lowercase extension of a file name
LowerExt(name) == Lower(PathSuffix(name))

\* C1: a call of extract_text_from_bytes with a recognised extension goes on until
\* it returns, and what it returns is a string of length >= 1, whatever the buffer
\* holds and whatever the backends do
C1_ReturnsNonEmptyString ==
    (entry = "extract_text_from_bytes" /\ LowerExt(filename) \in RecognizedExts)
    => /\ pc = "done" => Len(result) >= 1
       /\ pc # "done" => Running /\ stack # <<>>

\* C1: a corrupted buffer under a recognised name has been answered
C1_Witness ==
    /\ pc = "done" /\ entry = "extract_text_from_bytes"
    /\ filename = FILENAME.Hwpx /\ file_bytes = Garbage
    /\ result = "HWPX: Invalid file format."

\* the entries the claims call eligible: no directory, not under __MACOSX, not hidden
C2_Eligible(f) ==
    /\ f # <<>> => f[Len(f)] # "/"
    /\ ~(Len(f) >= Len(MACOSX) /\ \A i \in 1..Len(MACOSX) : f[i] = MACOSX[i])
    /\ Basename(f) # <<>> => Basename(f)[1] # "."
C2_Named(f) == Contains(Basename(f), LIT_PROPOSAL) \/ Contains(Basename(f), LIT_TASK)
C2_HwpFamily(f) == \E e \in {EXT_HWP, EXT_HWPX} : EndsWith(Lower(f), e)
C2_OtherDocument(f) == \E e \in {EXT_DOCX, EXT_PDF} : EndsWith(Lower(f), e)
C2_Entries == {file_list[i] : i \in 1..Len(file_list)}
C2_EligibleEntries == {f \in C2_Entries : C2_Eligible(f)}

\* C2: the entry select_best_file_from_zip returns is of the highest tier that has
\* an eligible entry (named proposal, then .hwp/.hwpx, then .docx/.pdf), wherever
\* the entries stand in the listing; it is None when no tier has one, and otherwise
\* an entry of the listing
C2_StrictTierPriority ==
    pc = "done" =>
       /\ best_file = NoFile \/ best_file \in C2_Entries
       /\ IF \E f \in C2_EligibleEntries : C2_Named(f)
          THEN best_file \in C2_EligibleEntries /\ C2_Named(best_file)
          ELSE IF \E f \in C2_EligibleEntries : C2_HwpFamily(f)
          THEN best_file \in C2_EligibleEntries /\ C2_HwpFamily(best_file)
          ELSE IF \E f \in C2_EligibleEntries : C2_OtherDocument(f)
          THEN best_file \in C2_EligibleEntries /\ C2_OtherDocument(best_file)
          ELSE best_file = NoFile

\* C2: a named entry that stands last has beaten a .pdf and a .hwp before it
C2_Witness ==
    /\ pc = "done"
    /\ file_list = <<ENTRY.pdf, ENTRY.hwp, ENTRY.prop_xls>>
    /\ best_file = ENTRY.prop_xls

C3_Directory(f) == f # <<>> /\ f[Len(f)] = "/"
C3_UnderMacosx(f) == Len(f) >= Len(MACOSX) /\ \A i \in 1..Len(MACOSX) : f[i] = MACOSX[i]
C3_Hidden(f) == Basename(f) # <<>> /\ Basename(f)[1] = "."

\* C3: select_best_file_from_zip never returns a directory entry, an entry under
\* __MACOSX or an entry whose base name begins with "."
C3_NeverSelectsExcluded ==
    (pc = "done" /\ best_file # NoFile)
    => ~C3_Directory(best_file) /\ ~C3_UnderMacosx(best_file) /\ ~C3_Hidden(best_file)

\* C3: a listing of excluded entries only, each of a high priority, yields None
C3_Witness ==
    /\ pc = "done"
    /\ file_list = <<ENTRY.mac_prop, ENTRY.hid_task, ENTRY.dir_prop>>
    /\ best_file = NoFile

\* the buffer extract_from_hwp was called with
HwpInput == IF CallsOf("extract_from_zip") # {} THEN inner_bytes ELSE file_bytes
EncryptedInput == HwpInput.kind = "hwp" /\ HwpInput.encrypted
SENTINEL == "HWP Protected: This file is encrypted."

\* C4 as claimed: extract_from_hwp returns the sentinel for every container that
\* holds EncryptedPackage, whatever the primary backend does, and no stream is read
C4_AlwaysSentinel ==
    (pc = "hwp_return" /\ EncryptedInput)
    => result = SENTINEL /\ streams_read = <<>>

\* C4 as amended: for a container that holds EncryptedPackage the secondary
\* strategy reads no PrvText or BodyText stream; it runs whenever the primary
\* backend is missing, raises or yields no non-blank text, and with olefile present
\* its result is the sentinel; when the primary backend yields non-blank text
\* that text is the result
C4_SentinelFromSecondary ==
    (pc = "hwp_return" /\ EncryptedInput)
    => /\ streams_read = <<>>
       /\ (~HAS_HWPLOADER \/ HwpInput.loader.raises
              \/ \A i \in 1..Len(HwpInput.loader.docs) : Strip(HwpInput.loader.docs[i]) = "")
          => CallsOf("_extract_from_hwp_olefile") # {}
       /\ (CallsOf("_extract_from_hwp_olefile") # {} /\ HAS_OLEFILE) => result = SENTINEL
       /\ (CallsOf("_extract_from_hwp_olefile") # {} /\ ~HAS_OLEFILE)
          => result = "HWP extraction requires olefile or langchain-teddynote library."
       /\ CallsOf("_extract_from_hwp_olefile") = {}
          => /\ SelectSeq(HwpInput.loader.docs, NonBlank) # <<>>
             /\ result = Join("\n\n", SelectSeq(HwpInput.loader.docs, NonBlank))

\* C4: the primary backend raised on an encrypted container and the sentinel is returned
C4_Witness ==
    /\ pc = "hwp_return" /\ EncryptedInput
    /\ HAS_HWPLOADER /\ HwpInput.loader.raises /\ temp_file_path # "None"
    /\ result = SENTINEL

\* C5 as claimed: when extract_from_hwp has used the primary backend, no temporary
\* file of the call exists at the moment it returns
C5_TempFileReleased ==
    (pc = "hwp_return" /\ HAS_HWPLOADER) => fs = {}

\* C6: for a name whose lowercase extension is not recognised the result is the
\* unsupported-format message with that extension and the url, and nothing is called
C6_UnsupportedMessage ==
    (entry = "extract_text_from_bytes" /\ pc = "done"
        /\ LowerExt(filename) \notin RecognizedExts)
    => /\ result = "Unsupported file format: " \o Str(LowerExt(filename))
                   \o ". Please check the manual link: " \o url
       /\ Len(calls) = 1

\* C6: a name without extension, with a link
C6_Witness ==
    /\ entry = "extract_text_from_bytes" /\ pc = "done"
    /\ filename = FILENAME.noext /\ url = "https://example.org/f.txt"
    /\ result = "Unsupported file format: . Please check the manual link: https://example.org/f.txt"

\* the table of the claim
C7_Table(ext) ==
    CASE ext = EXT_ZIP -> "extract_from_zip"
      [] ext = EXT_HWP -> "extract_from_hwp"
      [] ext = EXT_HWPX -> "extract_from_hwpx"
      [] ext = EXT_PDF -> "extract_from_pdf"
      [] ext = EXT_DOCX -> "extract_from_docx"
      [] ext \in {EXT_XLSX, EXT_XLS} -> "extract_from_xlsx"
      [] OTHER -> "none"

\* C7: once the dispatcher has chosen, it has called exactly the handler the table
\* gives for the lowercase last extension of the name, and no other, whatever the
\* letter case of the name and whatever the buffer holds
C7_HandlerByLowercaseExtension ==
    (entry = "extract_text_from_bytes" /\ pc # "disp")
    => IF C7_Table(LowerExt(filename)) = "none"
       THEN CalledBy("extract_text_from_bytes") = {}
       ELSE /\ Cardinality(CalledBy("extract_text_from_bytes")) = 1
            /\ \A i \in CalledBy("extract_text_from_bytes") :
                  calls[i].fn = C7_Table(LowerExt(filename))

\* C7: an upper-case .XLS name with a buffer that is no workbook went to the sheet extractor
C7_Witness ==
    /\ entry = "extract_text_from_bytes" /\ pc = "done"
    /\ filename = FILENAME.xls /\ file_bytes = OnePagePdf
    /\ calls[2].fn = "extract_from_xlsx"

\* the fragments of the body sections 0, 1, ... up to the first one that is missing
RECURSIVE C8_Body(_, _)
C8_Body(b, i) ==
    IF i < SECTION_CAP /\ i \in b.sections
    THEN SectionReadable(b, i) \o C8_Body(b, i + 1) ELSE <<>>

\* what the secondary strategy returns for b
C8_OleResult(b) ==
    IF ~HAS_OLEFILE THEN "HWP extraction requires olefile or langchain-teddynote library."
    ELSE IF b.kind # "hwp" THEN "HWP extraction failed: " \o ErrMsg
    ELSE IF b.encrypted THEN SENTINEL
    ELSE IF b.prv = "exists_fault" THEN "HWP extraction failed: " \o ErrMsg
    ELSE LET parts == (IF b.prv = "text" THEN <<"preview">> ELSE <<>>) \o C8_Body(b, 0)
         IN  IF parts # <<>> THEN Join("\n", parts)
             ELSE "HWP: Could not extract text. File may use unsupported encoding."

\* what extract_from_hwp may return for b: the text of the primary backend, or the
\* result of the secondary strategy
C8_HwpResults(b) ==
    {C8_OleResult(b)}
    \cup (IF HAS_HWPLOADER /\ b.kind = "hwp" /\ ~b.loader.raises
             /\ SelectSeq(b.loader.docs, NonBlank) # <<>>
          THEN {Join("\n\n", SelectSeq(b.loader.docs, NonBlank))} ELSE {})

\* what the dispatcher may return when called with b under a name of extension ext
C8_DirectResults(b, ext) ==
    CASE Handler(ext) = "extract_from_hwp" -> C8_HwpResults(b)
      [] Handler(ext) = "extract_from_hwpx" -> {HwpxResult(b)}
      [] Handler(ext) = "extract_from_pdf" -> {PdfResult(b)}
      [] Handler(ext) = "extract_from_docx" -> {DocxResult(b)}
      [] Handler(ext) = "extract_from_xlsx" -> {XlsxResult(b)}
      [] OTHER -> {}

\* C8: the dispatcher called directly with a buffer under a name of one of the five
\* inner extensions returns one of the strings R of C8_DirectResults, and
\* extract_from_zip, having read the selected entry E of such an extension, returns
\* "[Extracted from ZIP: E]", two newlines and one of these R for E's bytes and name
C8_ZipWrapsDirectResult ==
    /\ (pc = "done" /\ entry = "extract_text_from_bytes"
           /\ LowerExt(filename) \in InnerExts)
       => result \in C8_DirectResults(file_bytes, LowerExt(filename))
    /\ (pc = "done" /\ entry = "extract_from_zip" /\ inner_bytes # NoBytes
           /\ LowerExt(best_file) \in InnerExts)
       => \E R \in C8_DirectResults(inner_bytes, LowerExt(best_file)) :
             result = "[Extracted from ZIP: " \o Str(best_file) \o "]\n\n" \o R

\* C8: an archive whose selected entry is c.pdf
C8_Witness ==
    /\ pc = "done" /\ entry = "extract_from_zip" /\ HAS_PYPDF
    /\ best_file = ENTRY.pdf /\ inner_bytes = OnePagePdf
    /\ result = "[Extracted from ZIP: c.pdf]\n\n[Page 1]\npage text"

\* C9: in every call the archive resolver is entered at most once, it calls
\* neither itself nor the dispatcher, the chain of calls is bounded (at most four
\* functions run at once, at most five are called) and the call goes on until it
\* has returned
C9_ResolverEnteredOnce ==
    /\ Cardinality(CallsOf("extract_from_zip")) <= 1
    /\ Cardinality(CallsOf("extract_text_from_bytes")) <= 1
    /\ \A i \in CalledBy("extract_from_zip") :
          calls[i].fn \notin {"extract_from_zip", "extract_text_from_bytes"}
    /\ Len(stack) <= 4 /\ Len(calls) <= 5
    /\ section_i <= SECTION_CAP
    /\ pc # "done" => Running /\ stack # <<>>

\* C9: an archive whose selected entry is an archive with the same listing
C9_Witness ==
    /\ pc = "done" /\ entry = "extract_text_from_bytes" /\ filename = FILENAME.ZIP
    /\ file_bytes = Zip(<<ENTRY.task_zip, ENTRY.pdf>>, "ok", NestedZip)
    /\ inner_bytes = NestedZip
    /\ result = "[Extracted from ZIP: r/{gwa}{eop}{ji}{si}{seo}.zip]\n\nZIP: Unsupported inner file format: .zip"

\* C10: for a buffer that is no ZIP container, the zero-length buffer included, the
\* archive resolver returns the invalid-archive message, selects no entry and
\* extracts nothing
C10_InvalidArchive ==
    (pc = "done" /\ CallsOf("extract_from_zip") # {}
        /\ file_bytes.kind \in {"empty", "garbage", "pdf", "hwp"})
    => /\ result = "ZIP: Invalid or corrupted archive."
       /\ CallsOf("select_best_file_from_zip") = {}
       /\ CalledBy("extract_from_zip") = {}
       /\ best_file = NoFile /\ inner_bytes = NoBytes

\* C10: the zero-length buffer handed to extract_from_zip
C10_Witness ==
    /\ pc = "done" /\ entry = "extract_from_zip" /\ file_bytes = Empty
    /\ result = "ZIP: Invalid or corrupted archive."

C11_HasProposal(f) == Contains(Basename(f), LIT_PROPOSAL)
C11_HasTask(f) == Contains(Basename(f), LIT_TASK)

\* C11 as claimed: when the listing holds an eligible entry whose base name contains
\* the proposal literal, the entry chosen is such an entry and not one that only
\* contains the task-order literal, wherever the two stand in the listing
C11_ProposalBeatsTaskOrder ==
    (pc = "done" /\ \E f \in C2_EligibleEntries : C11_HasProposal(f))
    => best_file # NoFile /\ C11_HasProposal(best_file)

(***************************************************************************)
(* Calls of extract_text_from_bytes that run at the same time.  Each call  *)
(* has its own arguments and locals, sites[p]; the calls share the         *)
(* capability flags and the directory of temporary files: fs is the set of *)
(* the names that exist, disk[n] the bytes of the file n and the call that *)
(* created it.  A step of a call is what it does up to its next use of     *)
(* what is shared.                                                         *)
(***************************************************************************)
\* the number of calls that run at the same time
NumCallers == 2
Callers == 1..NumCallers

\* the names tempfile can give a file
TempNames == {"tmp" \o ToString(k) \o ".hwp" : k \in 1..NumCallers}

\* FreshNames when every call writes to one fixed path
FreshNames_Fixed(existing) == {"tmp1.hwp"}

\* tempfile.NamedTemporaryFile(..., delete=False): a name no existing file has
FreshNames(existing) == TempNames \ existing

\* select_best_file_from_zip(listing) as a value
SelectBestFile(listing) ==
    LET valid == SelectSeq(listing, IsValidFile)
        p1 == SelectSeq(valid, IsPriority1)
        p2 == SelectSeq(valid, IsPriority2)
        p3 == SelectSeq(valid, IsPriority3)
    IN  IF p1 # <<>> THEN Head(p1)
        ELSE IF p2 # <<>> THEN Head(p2)
        ELSE IF p3 # <<>> THEN Head(p3)
        ELSE NoFile

\* f"ZIP: No suitable document found. Files in archive: {', '.join(file_list[:10])}"
NoSuitableMessage(names) ==
    "ZIP: No suitable document found. Files in archive: "
    \o Join(", ", [i \in 1..Len(FirstNames(names)) |-> Str(FirstNames(names)[i])])

\* the arguments of the calls
LoadedHwp ==
    [kind |-> "hwp", loader |-> [raises |-> FALSE, docs |-> <<"loaded 2", " ">>],
     encrypted |-> FALSE, prv |-> "text", sections |-> {0}, silent |-> {}]
ConcCalls ==
    {[filename |-> FILENAME.hwp, url |-> "", file_bytes |-> EncryptedLoadedHwp],
     [filename |-> FILENAME.hwp, url |-> "", file_bytes |-> LoadedHwp],
     [filename |-> FILENAME.ZIP, url |-> "", file_bytes |-> Zip(<<ENTRY.pdf, ENTRY.hwp>>, "ok", PlainHwp)],
     [filename |-> FILENAME.Hwpx, url |-> "", file_bytes |-> Garbage],
     [filename |-> FILENAME.txt, url |-> "https://example.org/f.txt", file_bytes |-> Garbage]}

\* the locals of a call that has not started
SiteOf(c) ==
    [filename |-> c.filename, url |-> c.url, file_bytes |-> c.file_bytes,
     pc |-> "disp", cur |-> c.file_bytes, best_file |-> NoFile,
     temp_file_path |-> "None", outcome |-> "none", result |-> "",
     caps |-> <<>>, touched |-> {}]

\* the return of the call of p with the value r of its handler; a handler called by
\* extract_from_zip returns to the wrapping of line 376
Finish(s, r) ==
    [s EXCEPT !.pc = "done",
              !.result = IF s.best_file # NoFile THEN Wrapped(s.best_file, r) ELSE r]

\* ext = Path(filename).suffix.lower() and the if/elif chain of the dispatcher
conc_dispatch(p) ==
    /\ sites[p].pc = "disp"
    /\ LET s == sites[p]
           ext == DispatchExt(s.filename)
       IN  sites' = [sites EXCEPT ![p] =
              IF Handler(ext) = "unsupported"
              THEN Finish([s EXCEPT !.caps = capVars], UnsupportedMessage(ext, s.url))
              ELSE [s EXCEPT !.pc = Handler(ext), !.caps = capVars]]
    /\ UNCHANGED <<capVars, argVars, stack, pc, calls, result, selVars, inner_bytes,
                   hwpVars, oleVars, disk>>

\* extract_from_zip up to the call of the extractor of the selected entry
conc_zip(p) ==
    /\ sites[p].pc = "extract_from_zip"
    /\ LET s == sites[p]
           b == s.file_bytes
           best == SelectBestFile(ZipNamelist(b))
           inner_ext == InnerExt(best)
       IN  sites' = [sites EXCEPT ![p] =
              IF ZipOpen(b) # "ok" THEN Finish(s, ZipFaultMessage(ZipOpen(b)))
              ELSE IF best = NoFile \/ best = <<>>
              THEN Finish(s, NoSuitableMessage(ZipNamelist(b)))
              ELSE IF ZipRead(b) # "ok" THEN Finish(s, ZipFaultMessage(ZipRead(b)))
              ELSE IF InnerHandler(inner_ext) = "unsupported"
              THEN Finish([s EXCEPT !.best_file = best],
                          "ZIP: Unsupported inner file format: " \o Str(inner_ext))
              ELSE [s EXCEPT !.pc = InnerHandler(inner_ext), !.best_file = best,
                             !.cur = ZipReadBytes(b)]]
    /\ UNCHANGED <<capVars, argVars, stack, pc, calls, result, selVars, inner_bytes,
                   hwpVars, oleVars, disk>>

\* the extractors that use no file: the capability flag is read, the buffer parsed
conc_extract(p) ==
    /\ sites[p].pc \in {"extract_from_hwpx", "extract_from_pdf", "extract_from_docx",
                        "extract_from_xlsx"}
    /\ LET s == sites[p]
           r == CASE s.pc = "extract_from_hwpx" -> HwpxResult(s.cur)
                  [] s.pc = "extract_from_pdf" -> PdfResult(s.cur)
                  [] s.pc = "extract_from_docx" -> DocxResult(s.cur)
                  [] s.pc = "extract_from_xlsx" -> XlsxResult(s.cur)
       IN  sites' = [sites EXCEPT ![p] = Finish(s, r)]
    /\ UNCHANGED <<capVars, argVars, stack, pc, calls, result, selVars, inner_bytes,
                   hwpVars, oleVars, disk>>

\* if HAS_HWPLOADER: temp_file_path = None ... else: return _extract_from_hwp_olefile(...)
conc_hwp_start(p) ==
    /\ sites[p].pc = "extract_from_hwp"
    /\ LET s == sites[p]
       IN  sites' = [sites EXCEPT ![p] =
              IF HAS_HWPLOADER THEN [s EXCEPT !.pc = "hwp_tempfile", !.temp_file_path = "None"]
              ELSE Finish(s, C8_OleResult(s.cur))]
    /\ UNCHANGED <<capVars, argVars, stack, pc, calls, result, selVars, inner_bytes,
                   hwpVars, oleVars, disk>>

\* the with block of lines 160-166; a fault in it goes to the except clause, which
\* returns the result of the secondary strategy once the finally clause has run
conc_hwp_tempfile(p) ==
    /\ sites[p].pc = "hwp_tempfile"
    /\ LET s == sites[p]
       IN  \E outcome \in TempOutcomes :
              IF outcome = "create_fault"
              THEN /\ sites' = [sites EXCEPT ![p] =
                         [s EXCEPT !.pc = "hwp_finally", !.outcome = outcome,
                                   !.result = C8_OleResult(s.cur)]]
                   /\ UNCHANGED <<fs, disk>>
              ELSE \E name \in FreshNames(fs) :
                   /\ fs' = fs \cup {name}
                   /\ disk' = (name :> [owner |-> p,
                                        bytes |-> IF outcome = "ok" THEN s.cur ELSE Empty])
                              @@ disk
                   /\ sites' = [sites EXCEPT ![p] =
                         IF outcome = "ok"
                         THEN [s EXCEPT !.pc = "hwp_load", !.outcome = outcome,
                                        !.temp_file_path = name]
                         ELSE [s EXCEPT !.pc = "hwp_finally", !.outcome = outcome,
                                        !.result = C8_OleResult(s.cur)]]
    /\ UNCHANGED <<capVars, argVars, stack, pc, calls, result, selVars, inner_bytes,
                   temp_file_path, documents, oleVars>>

\* lines 169-190: HWPLoader reads the file at temp_file_path; its non-blank texts are
\* the result, and without them, or when it raises, the secondary strategy is used
conc_hwp_load(p) ==
    /\ sites[p].pc = "hwp_load"
    /\ LET s == sites[p]
           there == s.temp_file_path \in fs
           file == disk[s.temp_file_path]
           parts == LoaderTextParts(LoaderDocuments(file.bytes))
       IN  sites' = [sites EXCEPT ![p] =
              IF ~there THEN [s EXCEPT !.pc = "hwp_finally", !.result = C8_OleResult(s.cur)]
              ELSE IF LoaderRaises(file.bytes) \/ parts = <<>>
              THEN [s EXCEPT !.pc = "hwp_finally", !.result = C8_OleResult(s.cur),
                             !.touched = @ \cup {file.owner}]
              ELSE [s EXCEPT !.pc = "hwp_finally", !.result = Join("\n\n", parts),
                             !.touched = @ \cup {file.owner}]]
    /\ UNCHANGED <<capVars, argVars, stack, pc, calls, result, selVars, inner_bytes,
                   hwpVars, oleVars, disk>>

\* finally: if temp_file_path and os.path.exists(temp_file_path): os.unlink(...);
\* then the return of extract_from_hwp
conc_hwp_finally(p) ==
    /\ sites[p].pc = "hwp_finally"
    /\ LET s == sites[p]
       IN  IF s.temp_file_path # "None" /\ s.temp_file_path \in fs
           THEN \E outcome \in UnlinkOutcomes :
                   /\ fs' = IF outcome = "ok" THEN fs \ {s.temp_file_path} ELSE fs
                   /\ disk' = IF outcome = "ok"
                              THEN [n \in (DOMAIN disk) \ {s.temp_file_path} |-> disk[n]]
                              ELSE disk
                   /\ sites' = [sites EXCEPT ![p] =
                         Finish([s EXCEPT !.touched = @ \cup {disk[s.temp_file_path].owner}],
                                s.result)]
           ELSE /\ sites' = [sites EXCEPT ![p] = Finish(s, s.result)]
                /\ UNCHANGED <<fs, disk>>
    /\ UNCHANGED <<capVars, argVars, stack, pc, calls, result, selVars, inner_bytes,
                   temp_file_path, documents, oleVars>>

\* the calls start together, each with its own arguments; the two flags the
\* handlers of these arguments read are either way
ConcInit ==
    /\ HAS_OLEFILE \in BOOLEAN /\ HAS_HWPLOADER \in BOOLEAN
    /\ HAS_PYPDF = TRUE /\ HAS_DOCX = TRUE /\ HAS_OPENPYXL = TRUE
    /\ entry = "extract_text_from_bytes"
    /\ filename = <<>> /\ url = "" /\ file_bytes = NoBytes
    /\ stack = <<>> /\ calls = <<>> /\ pc = "concurrent" /\ result = ""
    /\ file_list = <<>> /\ valid_files = <<>> /\ best_file = NoFile /\ tiers = <<>>
    /\ inner_bytes = NoBytes
    /\ temp_file_path = "None" /\ fs = {} /\ documents = <<>>
    /\ ole = "none" /\ streams_read = <<>> /\ text_parts = <<>> /\ section_i = 0
    /\ sites \in [Callers -> {SiteOf(c) : c \in ConcCalls}]
    /\ disk = <<>>

ConcNext ==
    \E p \in Callers :
        \/ conc_dispatch(p) \/ conc_zip(p) \/ conc_extract(p)
        \/ conc_hwp_start(p) \/ conc_hwp_tempfile(p) \/ conc_hwp_load(p)
        \/ conc_hwp_finally(p)

ConcSpec == ConcInit /\ [][ConcNext]_vars

\* what extract_from_hwp returns for b when the call runs alone and the temporary
\* file is written with the given outcome
C12_HwpAlone(b, outcome) ==
    IF HAS_HWPLOADER /\ outcome = "ok" /\ ~LoaderRaises(b)
          /\ LoaderTextParts(LoaderDocuments(b)) # <<>>
    THEN Join("\n\n", LoaderTextParts(LoaderDocuments(b)))
    ELSE C8_OleResult(b)

\* what a handler returns for b when the call runs alone
C12_HandlerAlone(h, b, outcome) ==
    CASE h = "extract_from_hwp" -> C12_HwpAlone(b, outcome)
      [] h = "extract_from_hwpx" -> HwpxResult(b)
      [] h = "extract_from_pdf" -> PdfResult(b)
      [] h = "extract_from_docx" -> DocxResult(b)
      [] h = "extract_from_xlsx" -> XlsxResult(b)

\* what extract_from_zip returns for b when the call runs alone
C12_ZipAlone(b, outcome) ==
    LET best == SelectBestFile(ZipNamelist(b))
        inner_ext == Lower(PathSuffix(best))
    IN  IF ZipOpen(b) # "ok" THEN ZipFaultMessage(ZipOpen(b))
        ELSE IF best = NoFile \/ best = <<>> THEN NoSuitableMessage(ZipNamelist(b))
        ELSE IF ZipRead(b) # "ok" THEN ZipFaultMessage(ZipRead(b))
        ELSE IF InnerHandler(inner_ext) = "unsupported"
        THEN Wrapped(best, "ZIP: Unsupported inner file format: " \o Str(inner_ext))
        ELSE Wrapped(best, C12_HandlerAlone(InnerHandler(inner_ext), ZipReadBytes(b), outcome))

\* what extract_text_from_bytes returns when the call runs alone
C12_Alone(name, u, b, outcome) ==
    LET ext == DispatchExt(name)
    IN  IF Handler(ext) = "unsupported" THEN UnsupportedMessage(ext, u)
        ELSE IF Handler(ext) = "extract_from_zip" THEN C12_ZipAlone(b, outcome)
        ELSE C12_HandlerAlone(Handler(ext), b, outcome)

\* C12: however the steps of the calls interleave, each call returns the string it
\* returns when it runs alone with the same arguments and the same outcome of
\* writing its temporary file; the capability flags are those the call found when
\* it started; the only temporary file a call opens or deletes is the one it
\* created itself, and that file holds the bytes of the call when the loader reads it
C12_CallsIndependent ==
    \A p \in DOMAIN sites :
        /\ sites[p].pc = "done"
           => sites[p].result = C12_Alone(sites[p].filename, sites[p].url,
                                          sites[p].file_bytes, sites[p].outcome)
        /\ sites[p].pc # "disp" => sites[p].caps = capVars
        /\ sites[p].touched \subseteq {p}
        /\ sites[p].pc = "hwp_load"
           => /\ sites[p].temp_file_path \in fs
              /\ disk[sites[p].temp_file_path] = [owner |-> p, bytes |-> sites[p].cur]

\* C12: two calls have each written a temporary file while the file of the other
\* existed, each has read and deleted its own, and each has its own text
C12_Witness ==
    /\ DOMAIN sites = Callers
    /\ \A p \in Callers : sites[p].pc = "done" /\ sites[p].touched = {p}
    /\ sites[1].temp_file_path = "tmp2.hwp" /\ sites[2].temp_file_path = "tmp1.hwp"
    /\ sites[1].result = "loaded 1" /\ sites[2].result = "loaded 2"
    /\ fs = {}

\* the last function called has returned to its caller and nothing has been done since
C13_JustReturned(fn) ==
    /\ calls # <<>> /\ calls[Len(calls)].fn = fn
    /\ \A i \in 1..Len(stack) : stack[i] # fn
    /\ pc = (CASE calls[Len(calls)].caller = "caller" -> "done"
               [] calls[Len(calls)].caller = "extract_text_from_bytes" -> "disp_return"
               [] calls[Len(calls)].caller = "extract_from_zip" -> "zip_wrap"
               [] OTHER -> "none")

\* C13: an extractor whose backend is absent returns the message that names the
\* missing library, whatever the buffer holds (a PDF, a workbook, no container at
\* all): extract_from_pdf without pypdf, extract_from_docx without python-docx,
\* extract_from_xlsx without openpyxl, and extract_from_hwp with neither HWPLoader
\* nor olefile, which then writes no temporary file, loads nothing, opens no
\* container and reads no stream
C13_UnavailableBeforeAnyWork ==
    /\ (C13_JustReturned("extract_from_pdf") /\ ~HAS_PYPDF)
       => result = "PDF extraction requires pypdf library."
    /\ (C13_JustReturned("extract_from_docx") /\ ~HAS_DOCX)
       => result = "DOCX extraction requires python-docx library."
    /\ (C13_JustReturned("extract_from_xlsx") /\ ~HAS_OPENPYXL)
       => result = "XLSX extraction requires openpyxl library."
    /\ (pc = "hwp_return" /\ ~HAS_HWPLOADER /\ ~HAS_OLEFILE)
       => /\ result = "HWP extraction requires olefile or langchain-teddynote library."
          /\ fs = {} /\ temp_file_path = "None" /\ documents = <<>>
          /\ ole = "none" /\ streams_read = <<>> /\ text_parts = <<>>

\* C13: a buffer that is no PDF at all, without pypdf
C13_Witness ==
    /\ C13_JustReturned("extract_from_pdf") /\ ~HAS_PYPDF
    /\ entry = "extract_from_pdf" /\ file_bytes = Garbage
    /\ result = "PDF extraction requires pypdf library."

\* the rows of a sheet that may contribute: those up to row 500 with a value
C14_Rows(sheet) ==
    {i \in 1..Len(sheet.rows) : i <= MAX_ROW /\ \E k \in 1..Len(sheet.rows[i]) : sheet.rows[i][k] # "None"}

\* the lines of a sheet, as the extractor builds them
C14_Lines(sheet) == SheetText(sheet)

\* the header, then one line for each row of C14_Rows, in the order of the rows
C14_SheetCapped(sheet) ==
    LET lines == C14_Lines(sheet)
        rows == C14_Rows(sheet)
    IN  /\ lines[1] = "[Sheet: " \o sheet.name \o "]"
        /\ Len(lines) = 1 + Cardinality(rows)
        /\ Len(lines) - 1 <= MAX_ROW
        /\ \A i \in rows :
              lines[1 + Cardinality({x \in rows : x <= i})]
                 = Join(" | ", SelectSeq(sheet.rows[i], LAMBDA v : v # "None"))

\* C14: for a workbook, the sheet extractor returns the sheets' blocks joined by a
\* blank line, and the block of each sheet is its header line followed by at most
\* 500 lines, one for each of the first 500 rows that has a value, in row order: no
\* row after row 500 has a line
C14_RowCap ==
    (C13_JustReturned("extract_from_xlsx") /\ HAS_OPENPYXL /\ CurBytes.kind = "xlsx"
        /\ entry = "extract_from_xlsx")
    => /\ \A k \in 1..Len(file_bytes.sheets) : C14_SheetCapped(file_bytes.sheets[k])
       /\ LET blocks == [k \in 1..Len(file_bytes.sheets) |->
                            Join("\n", C14_Lines(file_bytes.sheets[k]))]
              shown == SelectSeq([k \in 1..Len(file_bytes.sheets) |-> k],
                                 LAMBDA k : C14_Rows(file_bytes.sheets[k]) # {})
          IN  result = IF shown = <<>> THEN "XLSX: No data found."
                       ELSE Join("\n\n", [j \in 1..Len(shown) |-> blocks[shown[j]]])

\* C14: a sheet of 600 rows has given 500 lines, and one of 502 rows with an empty
\* third row has given 499
C14_Witness ==
    /\ C13_JustReturned("extract_from_xlsx") /\ HAS_OPENPYXL /\ file_bytes = BigXlsx
    /\ result = Join("\n", <<"[Sheet: Full]">> \o [i \in 1..500 |-> "r" \o ToString(i)])
                \o "\n\n"
                \o Join("\n", <<"[Sheet: Gap]", "a1 | b", "a2 | b">>
                              \o [i \in 1..497 |-> "a" \o ToString(i + 3) \o " | b"])

\* the buffer the extractor that ran last was called with
C15_Input == IF CallsOf("extract_from_zip") # {} THEN inner_bytes ELSE file_bytes

\* the names extract_from_hwpx takes for section files: Contents/section....xml
C15_SectionName(name) ==
    /\ Len(name) >= Len(SECTION_PREFIX) /\ Len(name) >= Len(XML_SUFFIX)
    /\ \A i \in 1..Len(SECTION_PREFIX) : name[i] = SECTION_PREFIX[i]
    /\ \A i \in 1..Len(XML_SUFFIX) : name[Len(name) - Len(XML_SUFFIX) + i] = XML_SUFFIX[i]

C16_Produced == SelectSeq(documents, LAMBDA t : Strip(t) # "")
C16_Secondary == CallsOf("_extract_from_hwp_olefile")

\* C16: in extract_from_hwp the secondary strategy is called at most once, and it is
\* called exactly when the primary backend is unavailable or has produced no
\* non-blank block in this call (it raised, it was not reached, it gave no document
\* or blank ones only); it starts only after the primary strategy has ended; when
\* the primary backend has produced a non-blank block the result is the non-blank
\* blocks joined by a blank line, and the secondary strategy has opened nothing
C16_StrategiesInOrder ==
    /\ Cardinality(C16_Secondary) <= 1
    /\ (pc = "ole_start" /\ HAS_HWPLOADER)
       => /\ C16_Produced = <<>>
          /\ temp_file_path = "None" \/ HwpInput.kind # "hwp" \/ HwpInput.loader.raises
                \/ documents = HwpInput.loader.docs
    /\ pc = "hwp_return"
       => /\ documents = IF HAS_HWPLOADER /\ temp_file_path # "None"
                            /\ HwpInput.kind = "hwp" /\ ~HwpInput.loader.raises
                         THEN HwpInput.loader.docs ELSE <<>>
          /\ C16_Secondary # {} <=> (~HAS_HWPLOADER \/ C16_Produced = <<>>)
          /\ C16_Produced # <<>>
             => /\ result = Join("\n\n", C16_Produced)
                /\ C16_Secondary = {} /\ ole = "none" /\ streams_read = <<>>

\* C16: the primary backend gave two texts and a blank one, and they are the result
C16_Witness ==
    /\ pc = "hwp_return" /\ HAS_HWPLOADER
    /\ documents = <<"loaded 1", " ", "loaded 2">>
    /\ result = "loaded 1\n\nloaded 2"
    /\ C16_Secondary = {}

\* what stands between "Contents/section" and ".xml" in a name
C17_Middle(name) == SubSeq(name, Len(SECTION_PREFIX) + 1, Len(name) - Len(XML_SUFFIX))

\* Contents/section<digits>.xml
C17_NumberedSection(name) ==
    /\ C15_SectionName(name) /\ Len(name) > Len(SECTION_PREFIX) + Len(XML_SUFFIX)
    /\ \A i \in 1..Len(C17_Middle(name)) : \E d \in 0..9 : C17_Middle(name)[i] = ToString(d)

\* the number a sequence of digits denotes
RECURSIVE C17_Number(_)
C17_Number(digits) ==
    IF digits = <<>> THEN 0
    ELSE 10 * C17_Number(SubSeq(digits, 1, Len(digits) - 1))
         + (CHOOSE d \in 0..9 : digits[Len(digits)] = ToString(d))

C17_Index(name) == C17_Number(C17_Middle(name))

\* the numbered sections of an archive in ascending order of their index
C17_InIndexOrder(b) ==
    LET names == SelectSeq(ZipNamelist(b), C17_NumberedSection)
        rank(n) == Cardinality({k \in 1..Len(names) : C17_Index(names[k]) < C17_Index(n)})
    IN  [r \in 1..Len(names) |-> names[CHOOSE k \in 1..Len(names) : rank(names[k]) = r - 1]]

\* C17 as claimed: the result of extract_from_hwpx is the text of the entries
\* Contents/section<digits>.xml, and of no other entry, section by section in
\* ascending order of the section index (section2.xml before section10.xml)
C17_NumericSectionOrder ==
    (C13_JustReturned("extract_from_hwpx") /\ C15_Input.kind = "hwpx")
    => LET parts == HwpxTextParts(C15_Input, C17_InIndexOrder(C15_Input))
       IN  result = IF parts # <<>> THEN Join("\n", parts)
                    ELSE "HWPX: No text content found in sections."

\* the non-blank strings of the subtree of e in the order of the XML source: the
\* text of e, the strings of each child's subtree, and after them the tail of e
RECURSIVE C18_DocumentOrder(_)
C18_DocumentOrder(e) ==
    (IF Strip(e.text) # "" THEN <<Strip(e.text)>> ELSE <<>>)
    \o Concat([k \in 1..Len(e.children) |-> C18_DocumentOrder(e.children[k])])
    \o (IF Strip(e.tail) # "" THEN <<Strip(e.tail)>> ELSE <<>>)

\* the strings of the sections that parse, section by section as the extractor
\* takes them, each section in the order of its source
C18_Parts(b) ==
    LET files == Sorted(SelectSeq(ZipNamelist(b), IsSectionFile))
    IN  Concat([k \in 1..Len(files) |->
                   IF PartNamed(b, files[k]).ok
                   THEN C18_DocumentOrder(PartNamed(b, files[k]).root) ELSE <<>>])

\* C18 as claimed: within each section the strings of the result stand in the
\* order of the XML source: for an element with text A, a child with text B and
\* tail C, and the tail D, the order is A, B, C, D
C18_DocumentOrderInSection ==
    (C13_JustReturned("extract_from_hwpx") /\ C15_Input.kind = "hwpx")
    => result = IF C18_Parts(C15_Input) # <<>> THEN Join("\n", C18_Parts(C15_Input))
                ELSE "HWPX: No text content found in sections."

\* the archive b without the parts that do not decode or parse
C19_WithoutFailing(b) == [b EXCEPT !.parts = SelectSeq(b.parts, LAMBDA part : part.ok)]

\* some element of the subtree of e has a non-blank text or tail
RECURSIVE C19_HasString(_)
C19_HasString(e) ==
    \/ Strip(e.text) # "" \/ Strip(e.tail) # ""
    \/ \E k \in 1..Len(e.children) : C19_HasString(e.children[k])

\* C19: a section that fails to decode or parse adds nothing to the result of
\* extract_from_hwpx and takes nothing away: the result is the one the extractor
\* returns for the archive without the failing sections; and the result is the
\* no-text message exactly when no section that parses holds a non-blank string
C19_FailingSectionSkipped ==
    (C13_JustReturned("extract_from_hwpx") /\ C15_Input.kind = "hwpx")
    => /\ result = HwpxResult(C19_WithoutFailing(C15_Input))
       /\ result = "HWPX: No text content found in sections."
          <=> \A i \in 1..Len(C15_Input.parts) :
                 (C15_SectionName(C15_Input.parts[i].name) /\ C15_Input.parts[i].ok)
                 => ~C19_HasString(C15_Input.parts[i].root)

\* C19: section2.xml does not parse, and sections 0, 1 and 10 have given their text
C19_Witness ==
    /\ C13_JustReturned("extract_from_hwpx") /\ entry = "extract_from_hwpx"
    /\ file_bytes.kind = "hwpx" /\ Len(file_bytes.parts) = 4
    /\ file_bytes.parts[3] = Part(MEMBER.section2, FALSE, Broken)
    /\ result = "s0\ns1\ns10"

\* the first index i for which BodyText/Section<i> is missing
C20_FirstGap(b) ==
    CHOOSE i \in 0..(SECTION_CAP + 1) :
        i \notin b.sections /\ \A j \in 0..(i - 1) : j \in b.sections

\* the names of the first n body streams
C20_Streams(n) == [k \in 1..n |-> "BodyText/Section" \o ToString(k - 1)]

\* what the secondary strategy has read before the body streams
C20_Preview(b) == IF b.prv = "absent" THEN <<>> ELSE <<"PrvText">>

\* C20 as claimed: when the loop over the body sections has ended, every section
\* below the first gap has been read, however many they are
C20_AllBelowGapRead ==
    pc = "ole_close"
    => streams_read = C20_Preview(HwpInput) \o C20_Streams(C20_FirstGap(HwpInput))

\* C20 as amended: the body streams read are BodyText/Section0, Section1, ... in
\* increasing order up to the first missing index and to index 99 at most (the loop
\* visits the indices 0..99), no stream at or above the first gap is read, and the
\* preview text, when there is one, comes first in the result, whose fragments are
\* joined by newlines
C20_SectionsBelowGapAndCap ==
    LET b == HwpInput
        n == IF C20_FirstGap(b) < SECTION_CAP THEN C20_FirstGap(b) ELSE SECTION_CAP
        fragments == Concat([k \in 1..n |-> IF (k - 1) \in b.silent THEN <<>>
                                            ELSE <<"body" \o ToString(k - 1)>>])
        expected == (IF b.prv = "text" THEN <<"preview">> ELSE <<>>) \o fragments
    IN  /\ pc = "ole_close"
           => /\ streams_read = C20_Preview(b) \o C20_Streams(n)
              /\ text_parts = expected
        /\ (pc \in {"hwp_finally", "hwp_return"} /\ ole = "closed")
           => result = IF expected # <<>> THEN Join("\n", expected)
                       ELSE "HWP: Could not extract text. File may use unsupported encoding."

\* C20: sections 0 and 1 have been read, section 3 beyond the gap has not, and the
\* preview text stands before the text of section 0 (section 1 gave no fragment)
C20_Witness ==
    /\ pc = "hwp_return" /\ ole = "closed" /\ file_bytes = GapHwp
    /\ streams_read = <<"PrvText", "BodyText/Section0", "BodyText/Section1">>
    /\ result = "preview\nbody0"

\* the selected entry of the archive has none of the five inner extensions
C21_UnsupportedEntry ==
    /\ CallsOf("extract_from_zip") # {}
    /\ best_file # NoFile
    /\ LowerExt(best_file) \notin InnerExts

\* C21: when the selected entry's extension is none of .hwp, .hwpx, .pdf, .docx,
\* .xlsx, the archive resolver calls no extractor (its only call is the selection),
\* and, the entry's bytes read, it returns the "[Extracted from ZIP: E]" prefix
\* followed by "ZIP: Unsupported inner file format: " and that extension
C21_UnsupportedInnerFormat ==
    C21_UnsupportedEntry
    => /\ \A i \in CalledBy("extract_from_zip") : calls[i].fn = "select_best_file_from_zip"
       /\ Len(calls) <= 3
       /\ (pc = "done" /\ inner_bytes # NoBytes)
          => result = "[Extracted from ZIP: " \o Str(best_file) \o "]\n\n"
                      \o "ZIP: Unsupported inner file format: " \o Str(LowerExt(best_file))

\* C21: an archive whose selected entry is the named .xls file, listed after a.hwp
C21_Witness ==
    /\ pc = "done" /\ entry = "extract_from_zip"
    /\ file_list = <<ENTRY.hwp, ENTRY.prop_xls>> /\ best_file = ENTRY.prop_xls
    /\ inner_bytes = SomeXlsx
    /\ result = "[Extracted from ZIP: {je}{an}{yo}{cheong}{seo}.xls]\n\nZIP: Unsupported inner file format: .xls"

\* lit stands in the last path component of f: it is found at a place of f with no
\* "/" from there to the end
C22_InLastComponent(f, lit) ==
    \E k \in 1..(Len(f) - Len(lit) + 1) :
        /\ SubSeq(f, k, k + Len(lit) - 1) = lit
        /\ \A j \in k..Len(f) : f[j] # "/"

\* the places of the listing that hold an eligible entry of each tier
C22_Tier1 ==
    {i \in 1..Len(file_list) :
        /\ C2_Eligible(file_list[i])
        /\ C22_InLastComponent(file_list[i], LIT_PROPOSAL)
           \/ C22_InLastComponent(file_list[i], LIT_TASK)}
C22_Tier2 == {i \in 1..Len(file_list) : C2_Eligible(file_list[i]) /\ C2_HwpFamily(file_list[i])}
C22_Tier3 == {i \in 1..Len(file_list) : C2_Eligible(file_list[i]) /\ C2_OtherDocument(file_list[i])}

\* the entry at the first of the places S
C22_First(S) == file_list[CHOOSE i \in S : \A j \in S : i <= j]

C23_TiersOf(f) ==
    (IF C22_InLastComponent(f, LIT_PROPOSAL) \/ C22_InLastComponent(f, LIT_TASK) THEN {1} ELSE {})
    \cup (IF C2_HwpFamily(f) THEN {2} ELSE {})
    \cup (IF C2_OtherDocument(f) THEN {3} ELSE {})

\* the tiers that hold an eligible entry of the listing
C23_NonEmptyTiers ==
    (IF C22_Tier1 # {} THEN {1} ELSE {}) \cup (IF C22_Tier2 # {} THEN {2} ELSE {})
    \cup (IF C22_Tier3 # {} THEN {3} ELSE {})

\* the tiers are examined in order, and none after one that holds an entry
C23_StopsAtFirstNonEmpty ==
    /\ \A k \in 1..Len(tiers) : tiers[k] = k
    /\ \A k \in 1..(Len(tiers) - 1) : tiers[k] \notin C23_NonEmptyTiers
    /\ pc = "done" => \/ tiers[Len(tiers)] \in C23_NonEmptyTiers /\ best_file # NoFile
                      \/ tiers = <<1, 2, 3>> /\ C23_NonEmptyTiers = {} /\ best_file = NoFile

\* C23 as stated: no entry of the listing passes the test of more than one tier,
\* and the tiers are examined in order up to the first that holds an entry
C23_TiersPartition ==
    /\ pc = "done" => \A i \in 1..Len(file_list) : Cardinality(C23_TiersOf(file_list[i])) <= 1
    /\ C23_StopsAtFirstNonEmpty

\* C23 amended: an entry may pass the test of the first tier and that of the second
\* or the third, while no entry passes those of both the second and the third; the
\* tiers are examined in order, none is examined after one that holds an eligible
\* entry, and the entry returned is of the last tier examined and of none before it
C23_TiersInOrder ==
    /\ \A i \in 1..Len(file_list) : ~({2, 3} \subseteq C23_TiersOf(file_list[i]))
    /\ C23_StopsAtFirstNonEmpty
    /\ (pc = "done" /\ best_file # NoFile)
       => /\ tiers[Len(tiers)] \in C23_TiersOf(best_file)
          /\ \A t \in C23_TiersOf(best_file) : t >= tiers[Len(tiers)]

\* C23: the named .hwp entry passes the tests of two tiers; it is returned by the
\* first tier and the second is not examined
C23_Witness ==
    /\ pc = "done" /\ entry = "select_best_file_from_zip"
    /\ file_list = <<ENTRY.hwp, ENTRY.prop_hwp>>
    /\ C23_TiersOf(ENTRY.prop_hwp) = {1, 2}
    /\ best_file = ENTRY.prop_hwp /\ tiers = <<1>>

\* the first k names of the listing, separated by ", "
RECURSIVE C24_Listed(_)
C24_Listed(k) ==
    IF k = 0 THEN ""
    ELSE IF k = 1 THEN Str(file_list[1])
    ELSE C24_Listed(k - 1) \o ", " \o Str(file_list[k])

\* extract_from_zip has opened an archive and handed its listing to the selection,
\* and none of the eligible entries is of a tier
C24_NothingSuitable ==
    /\ CallsOf("extract_from_zip") # {}
    /\ CallsOf("select_best_file_from_zip") # {}
    /\ C23_NonEmptyTiers = {}

\* C24: when no eligible entry of the archive is of any tier, extract_from_zip returns
\* "ZIP: No suitable document found. Files in archive: " followed by the first
\* min(10, n) names of the listing as the archive gives it (directories, __MACOSX
\* and hidden entries included), in its order, and reads the bytes of no entry
C24_NoSuitableDocument ==
    C24_NothingSuitable
    => /\ inner_bytes = NoBytes
       /\ \A i \in CalledBy("extract_from_zip") : calls[i].fn = "select_best_file_from_zip"
       /\ pc = "done"
          => result = "ZIP: No suitable document found. Files in archive: "
                      \o C24_Listed(IF Len(file_list) < 10 THEN Len(file_list) ELSE 10)

\* C24: a listing of eleven entries, the last one under __MACOSX: ten are shown
C24_Witness ==
    /\ pc = "done" /\ entry = "extract_from_zip"
    /\ Len(file_list) = 11 /\ file_list[1] = ENTRY.txt /\ file_list[11] = ENTRY.mac_prop
    /\ inner_bytes = NoBytes
    /\ result = "ZIP: No suitable document found. Files in archive: "
                \o "e.txt, e.txt, e.txt, e.txt, e.txt, e.txt, e.txt, e.txt, e.txt, e.txt"

\* page k of the document gives text: its extraction does not raise and what it
\* yields is neither empty nor white space
C25_GivesText(pages, k) == pages[k] \notin {"!raise", "", " "}

\* the blocks of the pages 1..k that give text, each under the marker of the page's
\* place in the document, separated by an empty line
RECURSIVE C25_Blocks(_, _)
C25_Blocks(pages, k) ==
    IF k = 0 THEN ""
    ELSE IF ~C25_GivesText(pages, k) THEN C25_Blocks(pages, k - 1)
    ELSE (IF C25_Blocks(pages, k - 1) = "" THEN "" ELSE C25_Blocks(pages, k - 1) \o "\n\n")
         \o "[Page " \o ToString(k) \o "]\n" \o pages[k]

\* C25: for a document the PDF reader opens, extract_from_pdf returns the blocks of
\* the pages that give text, in page order, each under "[Page N]" with N the page's
\* place in the document; a page that raises or yields blank text gives no block and
\* the pages after it are still read; and the result is the no-text message exactly
\* when no page gives text
C25_PdfBlocks ==
    (pc = "done" /\ CallsOf("extract_from_pdf") # {} /\ CallsOf("extract_from_zip") = {}
        /\ HAS_PYPDF /\ file_bytes.kind = "pdf")
    => LET pages == file_bytes.pages
           none == \A k \in 1..Len(pages) : ~C25_GivesText(pages, k)
       IN  /\ ~none => result = C25_Blocks(pages, Len(pages))
           /\ none <=> result = "PDF: No extractable text found (may be image-based)."

\* C25: the first page raises and the second gives text under its own number
C25_Witness ==
    /\ pc = "done" /\ entry = "extract_from_pdf" /\ HAS_PYPDF
    /\ file_bytes = [kind |-> "pdf", pages |-> <<"!raise", "page text">>]
    /\ result = "[Page 2]\npage text"

\* one of the first 500 rows of the sheet has a cell that is not None
C26_HasValue(sheet) ==
    \E r \in 1..Len(sheet.rows) :
        r <= 500 /\ \E c \in 1..Len(sheet.rows[r]) : sheet.rows[r][c] # "None"

\* the blocks of those of the sheets 1..k that have a value, in the order of the
\* workbook, separated by an empty line
RECURSIVE C26_Blocks(_, _)
C26_Blocks(sheets, k) ==
    IF k = 0 THEN ""
    ELSE LET before == C26_Blocks(sheets, k - 1)
         IN  IF ~C26_HasValue(sheets[k]) THEN before
             ELSE (IF before = "" THEN "" ELSE before \o "\n\n")
                  \o Join("\n", SheetText(sheets[k]))

\* C26: for a workbook that opens, extract_from_xlsx returns the blocks of the sheets
\* that have a non-null cell in one of their first 500 rows, and of no other sheet
\* (a sheet that gave its header only leaves nothing, the header included), in the
\* order of the workbook; the result is "XLSX: No data found." exactly when every
\* sheet is left out
C26_SheetsWithData ==
    (pc = "done" /\ CallsOf("extract_from_xlsx") # {} /\ CallsOf("extract_from_zip") = {}
        /\ HAS_OPENPYXL /\ file_bytes.kind = "xlsx")
    => LET sheets == file_bytes.sheets
           none == \A k \in 1..Len(sheets) : ~C26_HasValue(sheets[k])
       IN  /\ ~none => result = C26_Blocks(sheets, Len(sheets))
           /\ none <=> result = "XLSX: No data found."

\* C26: of three sheets, the one whose only value is in row 501 and the one
\* without rows are left out
C26_Witness ==
    /\ pc = "done" /\ entry = "extract_from_xlsx" /\ HAS_OPENPYXL
    /\ file_bytes = LateXlsx
    /\ result = "[Sheet: Data]\nv"

\* the name each extractor reports a fault under
C27_Format(fn) ==
    CASE fn = "_extract_from_hwp_olefile" -> "HWP"
      [] fn = "extract_from_hwp" -> "HWP"
      [] fn = "extract_from_hwpx" -> "HWPX"
      [] fn = "extract_from_pdf" -> "PDF"
      [] fn = "extract_from_docx" -> "DOCX"
      [] fn = "extract_from_xlsx" -> "XLSX"
      [] fn = "extract_from_zip" -> "ZIP"

\* the backend of fn is present and raises on the buffer b a fault that no narrower
\* handler of fn deals with: the buffer is no container of the format (for the two
\* ZIP readers: the reader raises something else than BadZipFile), or the container
\* opens and a later lookup in it raises
C27_Faults(fn, b) ==
    CASE fn = "_extract_from_hwp_olefile" ->
             /\ HAS_OLEFILE
             /\ b.kind # "hwp" \/ (~b.encrypted /\ b.prv = "exists_fault")
      [] fn = "extract_from_hwpx" -> b.kind = "zipfault"
      [] fn = "extract_from_pdf" -> HAS_PYPDF /\ b.kind # "pdf"
      [] fn = "extract_from_docx" -> HAS_DOCX /\ b.kind # "docx"
      [] fn = "extract_from_xlsx" -> HAS_OPENPYXL /\ b.kind # "xlsx"
      [] fn = "extract_from_zip" ->
             \/ b.kind = "zipfault"
             \/ b.kind = "zip" /\ b.read = "error" /\ best_file # NoFile
      [] OTHER -> FALSE

\* fn is the function called last and it has returned to its caller
C27_Returned(fn) ==
    /\ calls[Len(calls)].fn = fn
    /\ \A i \in 1..Len(stack) : stack[i] # fn
    /\ calls[Len(calls)].caller = "extract_from_hwp" => pc \in {"hwp_finally", "hwp_return"}
    /\ calls[Len(calls)].caller = "extract_from_zip" => pc = "zip_wrap"
    /\ calls[Len(calls)].caller = "extract_text_from_bytes" => pc = "disp_return"
    /\ calls[Len(calls)].caller = "caller" => pc = "done"

\* the extractor the archive resolver called on the selected entry, if any
C27_InnerCalls ==
    {calls[i].fn : i \in {j \in CalledBy("extract_from_zip") :
                              calls[j].fn # "select_best_file_from_zip"}}

\* the buffer the extractor called last was given: the bytes of the selected entry
\* when the archive resolver has called an extractor, the caller's buffer otherwise
C27_Input == IF C27_InnerCalls # {} THEN inner_bytes ELSE file_bytes

\* C27: a fault of the backend that no narrower handler deals with is answered by the
\* extractor it happens in with "<Format> extraction failed: <message>": HWP (the
\* secondary strategy), HWPX, PDF, DOCX, XLSX, and ZIP for the archive's own reader;
\* when the extractor was called by the archive resolver on the selected entry, the
\* resolver returns that message under the "[Extracted from ZIP: <entry>]" prefix,
\* with the inner format's name, and not "ZIP extraction failed"
C27_FaultsReportedByFormat ==
    /\ \A fn \in {"_extract_from_hwp_olefile", "extract_from_hwpx", "extract_from_pdf",
                  "extract_from_docx", "extract_from_xlsx"} :
          (C27_Returned(fn) /\ C27_Faults(fn, C27_Input))
          => result = C27_Format(fn) \o " extraction failed: " \o ErrMsg
    /\ (pc \in {"disp_return", "done"} /\ CallsOf("extract_from_zip") # {}
           /\ C27_Faults("extract_from_zip", file_bytes))
       => result = "ZIP extraction failed: " \o ErrMsg
    /\ \A fn \in C27_InnerCalls :
          LET inner == IF fn = "extract_from_hwp" THEN "_extract_from_hwp_olefile" ELSE fn
          IN  (pc = "done" /\ C27_Faults(inner, inner_bytes))
              => /\ result = "[Extracted from ZIP: " \o Str(best_file) \o "]\n\n"
                             \o C27_Format(fn) \o " extraction failed: " \o ErrMsg
                 /\ result # "ZIP extraction failed: " \o ErrMsg

\* C27: the selected entry c.pdf holds no PDF
C27_Witness ==
    /\ pc = "done" /\ entry = "extract_from_zip" /\ HAS_PYPDF
    /\ best_file = ENTRY.pdf /\ inner_bytes = Garbage
    /\ C27_InnerCalls = {"extract_from_pdf"}
    /\ result = "[Extracted from ZIP: c.pdf]\n\nPDF extraction failed: backend fault"

\* the archive resolver has an entry that the second or the third tier returned
C28_ViaLaterTier ==
    /\ CallsOf("extract_from_zip") # {}
    /\ best_file # NoFile
    /\ Len(tiers) \in {2, 3}

\* the extractor of the format the name ends in
C28_Extractor(f) ==
    CASE EndsWith(Lower(f), EXT_HWP) -> "extract_from_hwp"
      [] EndsWith(Lower(f), EXT_HWPX) -> "extract_from_hwpx"
      [] EndsWith(Lower(f), EXT_DOCX) -> "extract_from_docx"
      [] EndsWith(Lower(f), EXT_PDF) -> "extract_from_pdf"
      [] OTHER -> "none"

\* the resolver's answer for an entry whose extension has no extractor
C28_UnsupportedResult ==
    "[Extracted from ZIP: " \o Str(best_file) \o "]\n\n"
    \o "ZIP: Unsupported inner file format: " \o Str(LowerExt(best_file))

\* C28: an entry returned by the second or the third tier ends in .hwp, .hwpx, .docx
\* or .pdf whatever its case, the resolver, having read it, calls the extractor of
\* that format and no other, and does not answer "unsupported inner format"; the
\* XLSX extractor is called on an entry, and the unsupported answer is given, only
\* for an entry the first tier returned
C28_LaterTiersAlwaysExtracted ==
    /\ C28_ViaLaterTier
       => /\ C28_Extractor(best_file) # "none"
          /\ (inner_bytes # NoBytes /\ pc # "zip_inner")
             => C27_InnerCalls = {C28_Extractor(best_file)}
          /\ pc = "done" => result # C28_UnsupportedResult
    /\ ("extract_from_xlsx" \in C27_InnerCalls
           \/ (pc = "done" /\ CallsOf("extract_from_zip") # {} /\ best_file # NoFile
                  /\ result = C28_UnsupportedResult))
       => tiers = <<1>>

\* C28: B.HWPX, returned by the second tier, is handed to the HWPX extractor
C28_Witness ==
    /\ pc = "done" /\ entry = "extract_from_zip"
    /\ file_list = <<ENTRY.HWPX, ENTRY.hwp>> /\ best_file = ENTRY.HWPX /\ tiers = <<1, 2>>
    /\ inner_bytes = SomeHwpx /\ C27_InnerCalls = {"extract_from_hwpx"}
    /\ result = "[Extracted from ZIP: B.HWPX]\n\ns0"

\* the three reasons to discard an entry: the path begins with __MACOSX, what follows
\* its last "/" begins with ".", its last character is "/"
C29_MacosxAtStart(f) ==
    Len(f) >= 8 /\ <<f[1], f[2], f[3], f[4], f[5], f[6], f[7], f[8]>> = MACOSX
C29_HiddenBaseName(f) ==
    \E k \in 1..Len(f) :
        /\ f[k] = "."
        /\ k = 1 \/ f[k - 1] = "/"
        /\ \A j \in k..Len(f) : f[j] # "/"
C29_EndsWithSlash(f) == Len(f) >= 1 /\ f[Len(f)] = "/"
C29_Discarded(f) == C29_MacosxAtStart(f) \/ C29_HiddenBaseName(f) \/ C29_EndsWithSlash(f)

\* the places of the listing whose entry is kept
C29_Kept == {i \in 1..Len(file_list) : ~C29_Discarded(file_list[i])}

\* C29: the entries the selection works on are the entries of the listing, in its
\* order, that neither begin with __MACOSX, nor have a base name beginning with ".",
\* nor end with "/", and only those; an entry with a visible base name in a hidden
\* directory, or in a __MACOSX directory below the root, is kept, and what is
\* returned is a kept entry
C29_DiscardedEntries ==
    (entry = "select_best_file_from_zip" /\ pc # "sel_filter")
    => /\ Len(valid_files) = Cardinality(C29_Kept)
       /\ \A i \in C29_Kept :
             valid_files[Cardinality({j \in C29_Kept : j <= i})] = file_list[i]
       /\ \A i \in 1..Len(file_list) :
             file_list[i] \in {ENTRY.submac_hwp, ENTRY.hiddir_docx} => i \in C29_Kept
       /\ (pc = "done" /\ best_file # NoFile)
          => \E i \in C29_Kept : file_list[i] = best_file

\* C29: the entry under __MACOSX at the root is discarded; .h/i.docx, in a hidden
\* directory, and s/__MACOSX/g.hwp, under a __MACOSX directory below the root, are kept
C29_Witness ==
    /\ pc = "done" /\ entry = "select_best_file_from_zip"
    /\ file_list = <<ENTRY.mac_prop, ENTRY.hiddir_docx, ENTRY.submac_hwp>>
    /\ valid_files = <<ENTRY.hiddir_docx, ENTRY.submac_hwp>>
    /\ best_file = ENTRY.submac_hwp

\* the secondary HWP strategy has run and returned
C30_Returned ==
    /\ CallsOf("_extract_from_hwp_olefile") # {}
    /\ \A i \in 1..Len(stack) : stack[i] # "_extract_from_hwp_olefile"

\* C30: when _extract_from_hwp_olefile has returned, the container it opened, if it
\* opened one, is closed, whatever it returns: the text, the message that nothing
\* could be extracted, the sentinel of an encrypted file, or the message of a fault
\* that happened after the container was opened
C30_ContainerClosed ==
    (C30_Returned /\ ole # "none") => ole = "closed"

====
